---------------------------- MODULE Spec2Model ----------------------------
(***************************************************************************)
(* Excerpt locator (POST /api/pdf/search, two variants), citation injector *)
(* (injectPageCitations), chat orchestration (POST /api/chat) and the chat *)
(* turn of the browser (handleSendMessage) of the StudyFetch PDF tutor.    *)
(*                                                                         *)
(* Text is a sequence of one-character strings.  Page coordinates are kept *)
(* in half units (a value v stands for v/2), so that Math.round is a real  *)
(* conversion.                                                             *)
(***************************************************************************)
EXTENDS Integers, Sequences, FiniteSets, TLC

VARIABLES
    \* ---- locator request (POST /api/pdf/search) ----
    variant,              \* "enhanced" | "segment": which route file serves
    excerpts,             \* request body: excerpts
    numPages,             \* doc.countPages()
    pc,                   \* position of the handler
    tasks,                \* per-page list of search calls, in loop order
    pageNum,              \* 0-based page loop index
    taskIdx,              \* index into tasks on the current page
    annotations,          \* annotations: any[]
    processedCoordinates, \* Set<string> of coordKeys
    found,                \* what page.search returned, per <<page, query>>
    searched,             \* queries handed to page.search so far
    response,             \* the JSON body returned
    handle,               \* the mupdf document handle: "none" | "open" | "destroyed"
    fault,                \* which document call threw, "none" if none did
    \* ---- citation injector (injectPageCitations) ----
    ipc,                  \* position of the double run
    aiResponse,           \* input answer text
    sources,              \* input source list
    mappings,             \* input pageMappings
    once,                 \* inject(t, s, pm)
    twice,                \* inject(inject(t, s, pm), s, pm)
    resolved,             \* per source index: strategy used and pages
    \* ---- chat orchestration (POST /api/chat) ----
    cpc,                  \* position of the handler
    chatRequest,          \* session, body and stored document of the request
    result,               \* what qaSystem.invoke resolved to
    chatResponse,         \* the JSON body returned
    \* ---- chat turn in the browser (handleSendMessage) ----
    tpc,                  \* position of handleSendMessage
    chatReply,            \* what fetch('/api/chat') came back with
    locateReply,          \* what fetch('/api/pdf/search') came back with
    highlightResult,      \* what generateHighlightAnnotations returned
    messages,             \* assistant messages handed to onSendMessage
    added,                \* annotation lists handed to onAddAnnotations
    navigated,            \* pages handed to onPageNavigation
    inputValue,           \* the text of the input field
    isLoading,            \* the isLoading state of the chat component
    sent,                 \* user messages handed to onSendMessage
    chatCalls,            \* number of fetch('/api/chat') calls issued
    attempts,             \* what each call of handleSendMessage found: input, isLoading
    \* ---- two locator requests on one server ----
    requests,             \* per request: position, inputs, locals, response
    clock                 \* Date.now(), in milliseconds

locVars  == <<variant, excerpts, numPages, pc, tasks, pageNum, taskIdx,
              annotations, processedCoordinates, found, searched, response,
              handle, fault>>
injVars  == <<ipc, aiResponse, sources, mappings, once, twice, resolved>>
chatVars == <<cpc, chatRequest, result, chatResponse>>
inputVars == <<inputValue, sent, chatCalls, attempts>>
turnVars == <<tpc, chatReply, locateReply, highlightResult, messages, added, navigated,
              isLoading, inputVars>>
pairVars == <<requests, clock>>
vars     == <<locVars, injVars, chatVars, turnVars, pairVars>>

---------------------------------------------------------------------------
(* Text helpers: the JavaScript string operations the code uses.           *)

Str1(c) == <<c>>
SP  == " "
Punct == {".", "!", "?"}
IsSpace(c) == c = SP

RECURSIVE DropLeft(_)
DropLeft(s) == IF s # <<>> /\ IsSpace(Head(s)) THEN DropLeft(Tail(s)) ELSE s

RECURSIVE DropRight(_)
DropRight(s) ==
    IF s # <<>> /\ IsSpace(s[Len(s)]) THEN DropRight(SubSeq(s, 1, Len(s) - 1)) ELSE s

\* String.prototype.trim
Trim(s) == DropRight(DropLeft(s))

RECURSIVE SkipSpaces(_, _)
SkipSpaces(s, i) == IF i <= Len(s) /\ IsSpace(s[i]) THEN SkipSpaces(s, i + 1) ELSE i

\* s.split(/[.!?]\s+/)
RECURSIVE SentSplit(_, _, _)
SentSplit(s, i, cur) ==
    IF i > Len(s) THEN <<cur>>
    ELSE IF s[i] \in Punct /\ i < Len(s) /\ IsSpace(s[i + 1])
         THEN <<cur>> \o SentSplit(s, SkipSpaces(s, i + 1), <<>>)
         ELSE SentSplit(s, i + 1, Append(cur, s[i]))
SplitSentences(s) == SentSplit(s, 1, <<>>)

\* s.split(/\s+/)
RECURSIVE WsSplit(_, _, _)
WsSplit(s, i, cur) ==
    IF i > Len(s) THEN <<cur>>
    ELSE IF IsSpace(s[i])
         THEN <<cur>> \o WsSplit(s, SkipSpaces(s, i), <<>>)
         ELSE WsSplit(s, i + 1, Append(cur, s[i]))
SplitWords(s) == WsSplit(s, 1, <<>>)

\* words.join(' ')
RECURSIVE JoinSpace(_)
JoinSpace(ws) ==
    IF ws = <<>> THEN <<>>
    ELSE IF Len(ws) = 1 THEN ws[1]
    ELSE ws[1] \o <<SP>> \o JoinSpace(Tail(ws))

\* [...new Set(list)]: first occurrences, in insertion order
RECURSIVE Dedup(_, _)
Dedup(s, seen) ==
    IF s = <<>> THEN <<>>
    ELSE IF Head(s) \in seen THEN Dedup(Tail(s), seen)
    ELSE <<Head(s)>> \o Dedup(Tail(s), seen \cup {Head(s)})

Range(s) == {s[i] : i \in DOMAIN s}

Min2(a, b) == IF a <= b THEN a ELSE b
Max2(a, b) == IF a >= b THEN a ELSE b

\* list.sort((a, b) => b.length - a.length): stable, longest first
RECURSIVE InsertByLen(_, _)
InsertByLen(x, s) ==
    IF s = <<>> THEN <<x>>
    ELSE IF Len(x) > Len(Head(s)) THEN <<x>> \o s
    ELSE <<Head(s)>> \o InsertByLen(x, Tail(s))
RECURSIVE SortLongestFirst(_)
SortLongestFirst(s) ==
    IF s = <<>> THEN <<>>
    ELSE InsertByLen(s[Len(s)], SortLongestFirst(SubSeq(s, 1, Len(s) - 1)))

\* list.sort((a, b) => a - b)
RECURSIVE InsertAsc(_, _)
InsertAsc(x, s) ==
    IF s = <<>> THEN <<x>>
    ELSE IF x < Head(s) THEN <<x>> \o s
    ELSE <<Head(s)>> \o InsertAsc(x, Tail(s))
RECURSIVE SortAsc(_)
SortAsc(s) ==
    IF s = <<>> THEN <<>>
    ELSE InsertAsc(s[Len(s)], SortAsc(SubSeq(s, 1, Len(s) - 1)))

RECURSIVE Flatten(_)
Flatten(ss) == IF ss = <<>> THEN <<>> ELSE Head(ss) \o Flatten(Tail(ss))

---------------------------------------------------------------------------
(* Bounds of the model.                                                    *)

MaxPages  == 2     \* pages of the document
MaxQuads  == 2     \* quads one page.search call returns
MaxHits   == 2     \* quads returned plus throws, over all page.search calls of a request

---------------------------------------------------------------------------
(* Request inputs: excerpts the language model may hand over.              *)

ExScenarioA == <<"V","i","r","u","s","e","s"," ","c","a","n","n","o","t"," ","r","e","p","r","o","d","u","c","e"," ","i","n","d","e","p","e","n","d","e","n","t","l","y",".">>
ExShort     == <<"C","e","l","l","s"," ","d","i","v","i","d","e">>
ExTiny      == <<" ","t","i","n","y"," ">>
ExTwoSent   == <<"H","o","s","t","s"," ","g","e","t"," ","s","i","c","k","."," ","V","i","r","u","s","e","s"," ","c","a","n","n","o","t"," ","r","e","p","r","o","d","u","c","e"," ","i","n","d","e","p","e","n","d","e","n","t","l","y",".">>
ExWindows   == <<"a","b","c","d"," ","e","f","g","h"," ","i","j"," ","k","l"," ","m","n"," ","o","p"," ","q","r"," ","s","t"," ","u","v">>

ExcerptLists ==
    { <<ExScenarioA>>,
      <<ExTiny, ExShort, ExScenarioA>>,
      <<ExTwoSent>>,
      <<ExWindows>> }

(* Quads page.search may return, in half units: ulx,uly,urx,ury,llx,lly,   *)
(* lrx,lry.  QLine1/QLine2 are two consecutive text lines (5 units apart), *)
(* QFar is a line 15 units below QLine2, QNear starts within half a unit   *)
(* of QLine1, QTurned is text turned by 180 degrees.                       *)
Quad(ulx, uly, urx, ury, llx, lly, lrx, lry) ==
    [ulx |-> ulx, uly |-> uly, urx |-> urx, ury |-> ury,
     llx |-> llx, lly |-> lly, lrx |-> lrx, lry |-> lry]
QLine1  == Quad(200, 200, 600, 200, 200, 240, 600, 240)
QLine2  == Quad(200, 250, 500, 250, 200, 290, 500, 290)
QFar    == Quad(200, 320, 600, 320, 200, 360, 600, 360)
QNear   == Quad(199, 200, 400, 200, 199, 240, 400, 240)
QTurned == Quad(600, 1040, 200, 1040, 600, 1000, 200, 1000)
QuadSet == {QLine1, QLine2, QFar, QNear, QTurned}

---------------------------------------------------------------------------
(* Locator: segmentation.                                                  *)

MIN_EXCERPT_ENHANCED == 10   \* part_002:73   excerpt.trim().length < 10
MIN_EXCERPT_SEGMENT  == 15   \* part_002:344  excerpt.trim().length > 15
MIN_SENTENCE         == 15   \* part_002:115, 340
MIN_PHRASE           == 20   \* part_002:176, 358
PHRASE_MIN_WORDS     == 6    \* part_002:174, 356
PHRASE_MAX_WORDS     == 12   \* part_002:175
SEGMENT_WORDS_OVER   == 8    \* part_002:354
TOLERANCE            == 10   \* part_002:142

Task(kind, query, tag) == [kind |-> kind, query |-> query, tag |-> tag]

\* mutant of Sentences: the length filter dropped
SentencesUnfiltered(excerpt) == SplitSentences(excerpt)

\* excerpt.split(/[.!?]\s+/).filter(s => s.trim().length > 15)
Sentences(excerpt) ==
    SelectSeq(SplitSentences(excerpt), LAMBDA s : Len(Trim(s)) > MIN_SENTENCE)

\* for (let i = 0; i <= words.length - 6; i++) words.slice(i, i + n).join(' ')
RECURSIVE PhrasesFrom(_, _, _)
PhrasesFrom(words, i, maxWords) ==
    IF i > Len(words) - PHRASE_MIN_WORDS THEN <<>>
    ELSE LET n == Min2(maxWords, Len(words) - i)
             phrase == JoinSpace(SubSeq(words, i + 1, i + n))
         IN (IF Len(phrase) > MIN_PHRASE THEN <<phrase>> ELSE <<>>)
            \o PhrasesFrom(words, i + 1, maxWords)

\* enhanced search: the page.search calls one excerpt causes on a page
EnhancedTasksOf(excerpt) ==
    IF Len(Trim(excerpt)) < MIN_EXCERPT_ENHANCED THEN <<>>
    ELSE LET sents == Sentences(excerpt)
             phrases == PhrasesFrom(SplitWords(excerpt), 0, PHRASE_MAX_WORDS)
         IN <<Task("full_excerpt", Trim(excerpt), excerpt)>>
            \o [i \in 1..Len(sents) |-> Task("sentence", Trim(sents[i]), sents[i])]
            \o [i \in 1..Len(phrases) |-> Task("phrase", phrases[i], phrases[i])]

EnhancedTasks(exs) == Flatten([i \in 1..Len(exs) |-> EnhancedTasksOf(exs[i])])

\* segment search: what one excerpt pushes onto searchableSegments
SegmentsOf(excerpt) ==
    IF Trim(excerpt) = <<>> THEN <<>>
    ELSE LET raw == Sentences(excerpt)
             sents == [i \in 1..Len(raw) |-> Trim(raw[i])]
             windows == [i \in 1..Len(sents) |->
                           LET words == SplitWords(sents[i])
                           IN IF Len(words) > SEGMENT_WORDS_OVER
                              THEN PhrasesFrom(words, 0, PHRASE_MIN_WORDS)
                              ELSE <<>>]
         IN (IF Len(Trim(excerpt)) > MIN_EXCERPT_SEGMENT
             THEN <<Trim(excerpt)>> ELSE <<>>)
            \o sents \o Flatten(windows)

searchableSegments(exs) == Flatten([i \in 1..Len(exs) |-> SegmentsOf(exs[i])])

\* [...new Set(searchableSegments)].sort((a, b) => b.length - a.length)
uniqueSegments(exs) == SortLongestFirst(Dedup(searchableSegments(exs), {}))

SegmentTasks(exs) ==
    LET segs == SelectSeq(uniqueSegments(exs), LAMBDA s : Trim(s) # <<>>)
    IN [i \in 1..Len(segs) |-> Task("segment", segs[i], segs[i])]

TasksFor(v, exs) == IF v = "enhanced" THEN EnhancedTasks(exs) ELSE SegmentTasks(exs)


---------------------------------------------------------------------------
(* Locator: boxes, duplicate keys and overlap.                             *)

U(n) == 2 * n                       \* n units, in half units
Round(v) == (v + 1) \div 2          \* Math.round of v/2

\* x: Math.min(ulx, llx), y: Math.min(uly, ury),
\* width: Math.max(urx, lrx) - x, height: Math.max(lly, lry) - y
BoxOf(q) ==
    LET x == Min2(q.ulx, q.llx)
        y == Min2(q.uly, q.ury)
    IN [x |-> x, y |-> y,
        width  |-> Max2(q.urx, q.lrx) - x,
        height |-> Max2(q.lly, q.lry) - y]

Annotation(page, q, tag, strategy) ==
    [pageNumber |-> page, coordinates |-> BoxOf(q), excerpt |-> tag,
     strategy |-> strategy]

\* `${pageNum + 1}-${Math.round(ulx)}-${Math.round(uly)}`
EnhancedCoordKey(page, q) == <<page, Round(q.ulx), Round(q.uly)>>

\* `${pageNum + 1}-${round(x0)}-${round(y0)}-${round(x1 - x0)}-${round(y1 - y0)}`
SegmentCoordKey(page, q) ==
    LET b == BoxOf(q)
    IN <<page, Round(b.x), Round(b.y), Round(b.width), Round(b.height)>>

\* mutant of BoxesOverlap: the tolerance on both boxes, 20 units between them
BoxesOverlapTwiceTolerance(b, e) ==
    ~ (  b.x > e.x + e.width + 2 * U(TOLERANCE)
      \/ e.x > b.x + b.width + 2 * U(TOLERANCE)
      \/ b.y > e.y + e.height + 2 * U(TOLERANCE)
      \/ e.y > b.y + b.height + 2 * U(TOLERANCE) )

\* !(x > ex + ew + 10 || ex > x + width + 10 || y > ey + eh + 10 || ey > y + height + 10)
BoxesOverlap(b, e) ==
    ~ (  b.x > e.x + e.width + U(TOLERANCE)
      \/ e.x > b.x + b.width + U(TOLERANCE)
      \/ b.y > e.y + e.height + U(TOLERANCE)
      \/ e.y > b.y + b.height + U(TOLERANCE) )

\* annotations.some(existing => existing.pageNumber === pageNum + 1 && overlap)
Overlaps(anns, page, b) ==
    \E i \in DOMAIN anns :
        anns[i].pageNumber = page /\ BoxesOverlap(b, anns[i].coordinates)

\* Strategy 1 of the enhanced search: one quad of a full-excerpt hit
AcceptFull(st, page, q, tag) ==
    LET key == EnhancedCoordKey(page, q)
    IN IF key \notin st.keys
       THEN [anns |-> Append(st.anns, Annotation(page, q, tag, "full_excerpt")),
             keys |-> st.keys \cup {key}]
       ELSE st

\* Strategies 2 and 3 of the enhanced search: one quad of a sentence or phrase hit
AcceptChecked(st, page, q, tag, strategy) ==
    IF ~ Overlaps(st.anns, page, BoxOf(q))
    THEN [anns |-> Append(st.anns, Annotation(page, q, tag, strategy)),
          keys |-> st.keys]
    ELSE st

\* mutant of AcceptSegment: annotations.unshift instead of push
AcceptSegmentUnshift(st, page, q, tag) ==
    LET key == SegmentCoordKey(page, q)
    IN IF key \in st.keys THEN st
       ELSE [anns |-> <<Annotation(page, q, tag, "segment")>> \o st.anns,
             keys |-> st.keys \cup {key}]

\* segment search: one quad of a segment hit
AcceptSegment(st, page, q, tag) ==
    LET key == SegmentCoordKey(page, q)
    IN IF key \in st.keys THEN st
       ELSE [anns |-> Append(st.anns, Annotation(page, q, tag, "segment")),
             keys |-> st.keys \cup {key}]

AcceptQuad(st, page, q, task) ==
    CASE task.kind = "full_excerpt" -> AcceptFull(st, page, q, task.tag)
      [] task.kind = "segment"      -> AcceptSegment(st, page, q, task.tag)
      [] OTHER                      -> AcceptChecked(st, page, q, task.tag, task.kind)

\* for (const quadPoints of searchResults) for (const quad of quadPoints) ...
RECURSIVE AcceptAll(_, _, _, _)
AcceptAll(st, page, quads, task) ==
    IF quads = <<>> THEN st
    ELSE AcceptAll(AcceptQuad(st, page, Head(quads), task), page, Tail(quads), task)


---------------------------------------------------------------------------
(* Locator: response assembly.                                             *)

\* mutant of HighlightedPagesOf: the Set is dropped, repeats stay
HighlightedPagesWithRepeats(anns) ==
    SortAsc([i \in DOMAIN anns |-> anns[i].pageNumber])

\* [...new Set(annotations.map(ann => ann.pageNumber))].sort((a, b) => a - b)
HighlightedPagesOf(anns) ==
    SortAsc(Dedup([i \in DOMAIN anns |-> anns[i].pageNumber], {}))

\* sourcePageMapping: Map<string, number[]>, kept here in insertion order
RECURSIVE SourcePageMapping(_, _)
SourcePageMapping(anns, acc) ==
    IF anns = <<>> THEN acc
    ELSE LET a == Head(anns)
             known == \E i \in DOMAIN acc : acc[i].excerpt = a.excerpt
             withKey == IF known THEN acc
                        ELSE Append(acc, [excerpt |-> a.excerpt, pages |-> <<>>])
             next == [i \in DOMAIN withKey |->
                        IF withKey[i].excerpt = a.excerpt
                           /\ a.pageNumber \notin Range(withKey[i].pages)
                        THEN [withKey[i] EXCEPT !.pages = Append(@, a.pageNumber)]
                        ELSE withKey[i]]
         IN SourcePageMapping(Tail(anns), next)

\* Array.from(sourcePageMapping.entries()).map(([excerpt, pages]) => ({excerpt, pages: pages.sort()}))
PageMappingsOf(anns) ==
    LET m == SourcePageMapping(anns, <<>>)
    IN [i \in DOMAIN m |-> [excerpt |-> m[i].excerpt, pages |-> SortAsc(m[i].pages)]]

\* mutant of EnhancedResponse: highlightedPages computed before the last push
EnhancedResponseStalePages(anns) ==
    [status |-> 200, success |-> TRUE, annotations |-> anns,
     highlightedPages |-> HighlightedPagesOf(SubSeq(anns, 1, Len(anns) - 1)),
     totalMatches |-> Len(anns),
     pageMappings |-> PageMappingsOf(anns)]

EnhancedResponse(anns) ==
    [status |-> 200, success |-> TRUE, annotations |-> anns,
     highlightedPages |-> HighlightedPagesOf(anns),
     totalMatches |-> Len(anns),
     pageMappings |-> PageMappingsOf(anns)]

SegmentResponse(anns) ==
    [status |-> 200, success |-> TRUE, annotations |-> anns,
     highlightedPages |-> HighlightedPagesOf(anns),
     totalMatches |-> Len(anns)]

NoResponse == [status |-> 0]

\* mutant of LocateCatch: the error is swallowed into an empty success
LocateCatchEmptySuccess(error) ==
    [status |-> 200, success |-> TRUE, annotations |-> <<>>,
     highlightedPages |-> <<>>, totalMatches |-> 0, pageMappings |-> <<>>]

\* catch (error): NextResponse.json({error: 'PDF search failed', details}, {status: 500})
LocateCatch(error) ==
    [status |-> 500, error |-> "PDF search failed", details |-> error]

---------------------------------------------------------------------------
(* Locator: the request handler as a state machine.                        *)

\* sequences of at most n distinct quads
RECURSIVE QuadSeqs(_)
QuadSeqs(n) ==
    IF n = 0 THEN {<<>>}
    ELSE LET shorter == QuadSeqs(n - 1)
         IN shorter \cup {Append(qs, q) : qs \in shorter, q \in QuadSet}

RECURSIVE HitsIn(_)
HitsIn(f) ==
    IF f = <<>> THEN 0
    ELSE (IF Head(f).threw THEN 1 ELSE Len(Head(f).quads)) + HitsIn(Tail(f))

\* what page.search(query) may answer on this page, given what it answered before
SearchOutcomes(f, page, query) ==
    IF \E i \in DOMAIN f : f[i].page = page /\ f[i].query = query
    THEN {[threw |-> f[i].threw, quads |-> f[i].quads] :
             i \in {j \in DOMAIN f : f[j].page = page /\ f[j].query = query}}
    ELSE {[threw |-> FALSE, quads |-> qs] :
             qs \in {r \in QuadSeqs(Min2(MaxQuads, MaxHits - HitsIn(f))) :
                       \A i, j \in DOMAIN r : i # j => r[i] # r[j]}}
         \cup (IF HitsIn(f) < MaxHits
               THEN {[threw |-> TRUE, quads |-> <<>>]} ELSE {})

Remember(f, page, query, out) ==
    IF \E i \in DOMAIN f : f[i].page = page /\ f[i].query = query THEN f
    ELSE Append(f, [page |-> page, query |-> query,
                    threw |-> out.threw, quads |-> out.quads])

InjIdle ==
    /\ ipc = "idle" /\ aiResponse = <<>> /\ sources = <<>> /\ mappings = <<>>
    /\ once = <<>> /\ twice = <<>> /\ resolved = <<>>
ChatIdle ==
    /\ cpc = "idle" /\ chatRequest = <<>> /\ result = <<>>
    /\ chatResponse = NoResponse
TurnIdle ==
    /\ tpc = "idle" /\ chatReply = <<>> /\ locateReply = <<>>
    /\ highlightResult = <<>> /\ messages = <<>> /\ added = <<>> /\ navigated = <<>>
    /\ inputValue = <<>> /\ isLoading = FALSE /\ sent = <<>>
    /\ chatCalls = 0 /\ attempts = <<>>
PairIdle == requests = <<>> /\ clock = 0
LocIdle ==
    /\ variant = "enhanced" /\ excerpts = <<>> /\ numPages = 0 /\ pc = "idle"
    /\ tasks = <<>> /\ pageNum = 0 /\ taskIdx = 1 /\ annotations = <<>>
    /\ processedCoordinates = {} /\ found = <<>> /\ searched = {}
    /\ response = NoResponse /\ handle = "none" /\ fault = "none"

Init ==
    /\ variant \in {"enhanced", "segment"}
    /\ excerpts \in ExcerptLists
    /\ numPages \in 1..MaxPages
    /\ pc = "open"
    /\ tasks = <<>> /\ pageNum = 0 /\ taskIdx = 1
    /\ annotations = <<>> /\ processedCoordinates = {}
    /\ found = <<>> /\ searched = {}
    /\ response = NoResponse
    /\ handle = "none" /\ fault = "none"
    /\ InjIdle /\ ChatIdle /\ TurnIdle /\ PairIdle

\* mutant of AfterSearch: no try/catch around page.search
AfterSearchRethrow(out) == IF out.threw THEN "catch" ELSE "search"

\* catch (searchError) { console.warn(...) }: the handler goes on with the
\* next search call whatever page.search did
AfterSearch(out) == "search"

\* mupdf.Document.openDocument(...); the segment lists are built before the page loop
OpenDocument ==
    /\ pc = "open"
    /\ tasks' = TasksFor(variant, excerpts)
    /\ handle' = "open"
    /\ pc' = "search"
    /\ UNCHANGED <<variant, excerpts, numPages, pageNum, taskIdx, annotations,
                   processedCoordinates, found, searched, response, fault>>
    /\ UNCHANGED <<injVars, chatVars, turnVars, pairVars>>

\* mupdf.Document.openDocument(...) throws: no handle, control goes to the catch
OpenFails ==
    /\ pc = "open"
    /\ fault' = "openDocument"
    /\ pc' = "catch"
    /\ UNCHANGED <<variant, excerpts, numPages, tasks, pageNum, taskIdx, annotations,
                   processedCoordinates, found, searched, response, handle>>
    /\ UNCHANGED <<injVars, chatVars, turnVars, pairVars>>

\* doc.countPages() (loop condition) or doc.loadPage(pageNum) throws at the
\* head of a page iteration: control goes to the catch
PageLoopFails ==
    /\ pc = "search" /\ taskIdx = 1
    /\ \/ fault' = "countPages"
       \/ pageNum < numPages /\ fault' = "loadPage"
    /\ pc' = "catch"
    /\ UNCHANGED <<variant, excerpts, numPages, tasks, pageNum, taskIdx, annotations,
                   processedCoordinates, found, searched, response, handle>>
    /\ UNCHANGED <<injVars, chatVars, turnVars, pairVars>>

\* one page.search call of the page loop and the handling of its quads
SearchPage ==
    /\ pc = "search" /\ pageNum < numPages /\ taskIdx <= Len(tasks)
    /\ LET task == tasks[taskIdx]
           page == pageNum + 1
       IN \E out \in SearchOutcomes(found, page, task.query) :
            LET st == AcceptAll([anns |-> annotations, keys |-> processedCoordinates],
                                page, out.quads, task)
            IN /\ found' = Remember(found, page, task.query, out)
               /\ searched' = searched \cup {<<task.kind, task.query>>}
               /\ annotations' = st.anns
               /\ processedCoordinates' = st.keys
               /\ pc' = AfterSearch(out)
    /\ taskIdx' = taskIdx + 1
    /\ UNCHANGED <<variant, excerpts, numPages, tasks, pageNum, response, handle, fault>>
    /\ UNCHANGED <<injVars, chatVars, turnVars, pairVars>>

\* pageNum++ of the page loop
NextPage ==
    /\ pc = "search" /\ pageNum < numPages /\ taskIdx > Len(tasks)
    /\ pageNum' = pageNum + 1
    /\ taskIdx' = 1
    /\ UNCHANGED <<variant, excerpts, numPages, pc, tasks, annotations,
                   processedCoordinates, found, searched, response, handle, fault>>
    /\ UNCHANGED <<injVars, chatVars, turnVars, pairVars>>

\* doc.destroy() and NextResponse.json({success: true, ...})
Respond ==
    /\ pc = "search" /\ pageNum >= numPages
    /\ handle' = "destroyed"
    /\ response' = IF variant = "enhanced" THEN EnhancedResponse(annotations)
                   ELSE SegmentResponse(annotations)
    /\ pc' = "done"
    /\ UNCHANGED <<variant, excerpts, numPages, tasks, pageNum, taskIdx, annotations,
                   processedCoordinates, found, searched, fault>>
    /\ UNCHANGED <<injVars, chatVars, turnVars, pairVars>>

\* catch (error): the 500 response; the catch block holds no doc.destroy()
Catch ==
    /\ pc = "catch"
    /\ response' = LocateCatch(fault)
    /\ pc' = "done"
    /\ UNCHANGED <<variant, excerpts, numPages, tasks, pageNum, taskIdx, annotations,
                   processedCoordinates, found, searched, handle, fault>>
    /\ UNCHANGED <<injVars, chatVars, turnVars, pairVars>>

Next ==
    \/ OpenDocument \/ OpenFails \/ PageLoopFails
    \/ SearchPage \/ NextPage \/ Respond \/ Catch

Spec == Init /\ [][Next]_vars


---------------------------------------------------------------------------
(* Locator: properties.                                                    *)

\* the tolerance test as the specification words it, in units
ToleranceIntersect(a, b) ==
    ~ (  a.x > b.x + b.width + U(10)
      \/ b.x > a.x + a.width + U(10)
      \/ a.y > b.y + b.height + U(10)
      \/ b.y > a.y + a.height + U(10) )

Returned == pc = "done" /\ response.status = 200

\* C1: in the returned list no two distinct annotations on the same page
\* have boxes that intersect under the 10-unit tolerance test, whatever
\* strategy produced them.
C1_NonOverlap ==
    Returned =>
        \A i, j \in DOMAIN response.annotations :
            LET a == response.annotations[i]
                b == response.annotations[j]
            IN (i # j /\ a.pageNumber = b.pageNumber)
                   => ~ ToleranceIntersect(a.coordinates, b.coordinates)

IsTrimmedExcerpt(q) == \E i \in DOMAIN excerpts : Trim(excerpts[i]) = q
IsTrimmedSentence(q) ==
    \E i \in DOMAIN excerpts :
        \E k \in DOMAIN SplitSentences(excerpts[i]) :
            Trim(SplitSentences(excerpts[i])[k]) = q

SentenceAndWindowMinimum(kind, q) ==
    /\ kind = "sentence" => Len(q) > 15
    /\ kind = "phrase" => Len(q) > 20
    /\ kind = "segment" =>
          /\ Len(q) > 15
          /\ (~ IsTrimmedExcerpt(q) /\ ~ IsTrimmedSentence(q)) => Len(q) > 20

\* C7 as claimed: no page.search call below the minimum lengths: a full
\* excerpt only if its trimmed length is > 15, a sentence only if > 15, a
\* word window only if > 20.
C7_MinLengthsAsClaimed ==
    \A s \in searched :
        /\ s[1] = "full_excerpt" => Len(s[2]) > 15
        /\ SentenceAndWindowMinimum(s[1], s[2])

\* C7 amended: the enhanced search hands over a full excerpt whose trimmed
\* length is >= 10; the segment search only one whose trimmed length is
\* > 15; sentences are > 15 and word windows > 20 in both.
C7_MinLengths ==
    \A s \in searched :
        /\ s[1] = "full_excerpt" => Len(s[2]) >= 10
        /\ SentenceAndWindowMinimum(s[1], s[2])

\* C7 witness: a full excerpt of 10 to 15 characters has been searched, and
\* so has a longer one.
C7_Witness_ShortFull ==
    /\ \E s \in searched : s[1] = "full_excerpt" /\ Len(s[2]) <= 15
    /\ \E s \in searched : s[1] = "full_excerpt" /\ Len(s[2]) > 15

\* C8: on every page longer segments are searched before shorter ones, and
\* no surviving annotation is tolerance-overlapped by a hit of a strictly
\* longer segment on its page (the longer segment's box is the survivor).
C8_LongerFirst ==
    /\ \A i, j \in DOMAIN found :
          (i < j /\ found[i].page = found[j].page)
              => Len(found[i].query) >= Len(found[j].query)
    /\ Returned =>
          \A k \in DOMAIN response.annotations :
              \A i \in DOMAIN found :
                  LET a == response.annotations[k]
                  IN (found[i].page = a.pageNumber
                      /\ Len(found[i].query) > Len(Trim(a.excerpt)))
                         => \A n \in DOMAIN found[i].quads :
                                ~ ToleranceIntersect(BoxOf(found[i].quads[n]),
                                                     a.coordinates)

SetMin(S) == CHOOSE m \in S : \A n \in S : m <= n
SetMax(S) == CHOOSE m \in S : \A n \in S : m >= n
Envelope(q) ==
    LET xs == {q.ulx, q.urx, q.llx, q.lrx}
        ys == {q.uly, q.ury, q.lly, q.lry}
    IN [x |-> SetMin(xs), y |-> SetMin(ys),
        width |-> SetMax(xs) - SetMin(xs), height |-> SetMax(ys) - SetMin(ys)]

\* C9: every annotation's coordinates are the axis-aligned envelope of the
\* four corners of a quad the search returned on its page: the corners lie
\* in [x, x+width] x [y, y+height], and width and height are >= 0.
C9_Envelope ==
    \A k \in DOMAIN annotations :
        LET a == annotations[k]
        IN /\ a.coordinates.width >= 0 /\ a.coordinates.height >= 0
           /\ \E i \in DOMAIN found :
                 /\ found[i].page = a.pageNumber
                 /\ \E n \in DOMAIN found[i].quads :
                        a.coordinates = Envelope(found[i].quads[n])

IsSortedUnique(ps) == \A i, j \in DOMAIN ps : i < j => ps[i] < ps[j]

\* C10: whenever locate returns annotations it returns pageMappings with
\* exactly one entry per distinct annotation.excerpt, whose pages are
\* duplicate-free, ascending and the set of pageNumbers of the annotations
\* carrying that excerpt.
C10_PageMappings ==
    (Returned /\ response.annotations # <<>>) =>
        /\ "pageMappings" \in DOMAIN response
        /\ LET pm == response.pageMappings
               anns == response.annotations
           IN /\ {pm[i].excerpt : i \in DOMAIN pm}
                     = {anns[k].excerpt : k \in DOMAIN anns}
              /\ \A i, j \in DOMAIN pm : i # j => pm[i].excerpt # pm[j].excerpt
              /\ \A i \in DOMAIN pm :
                    /\ IsSortedUnique(pm[i].pages)
                    /\ Range(pm[i].pages)
                          = {anns[k].pageNumber :
                                k \in {n \in DOMAIN anns : anns[n].excerpt = pm[i].excerpt}}


\* C11: highlightedPages is duplicate-free and ascending, holds exactly the
\* page numbers that carry a returned annotation, all within 1..countPages.
C11_HighlightedPages ==
    Returned =>
        LET hp == response.highlightedPages
            anns == response.annotations
        IN /\ IsSortedUnique(hp)
           /\ Range(hp) = {anns[k].pageNumber : k \in DOMAIN anns}
           /\ \A i \in DOMAIN hp : hp[i] \in 1..numPages

\* C11 witness: a response whose annotations repeat a page number.
C11_Witness_RepeatedPage ==
    /\ Returned
    /\ \E i, j \in DOMAIN response.annotations :
          i # j /\ response.annotations[i].pageNumber = response.annotations[j].pageNumber

IsPrefix(a, b) == Len(a) <= Len(b) /\ SubSeq(b, 1, Len(a)) = a

\* C12: a throw of page.search does not abort locate: unless a document call
\* failed, the request ends with a success response carrying the accepted
\* annotations, after every task was searched on every page; no step ever
\* drops an annotation accepted before.
C12_SearchThrowTolerated ==
    /\ []( (pc \in {"catch", "done"} /\ fault = "none") =>
              /\ pc = "done" /\ response.status = 200
              /\ response.annotations = annotations
              /\ \A page \in 1..numPages : \A t \in DOMAIN tasks :
                    \E i \in DOMAIN found :
                        found[i].page = page /\ found[i].query = tasks[t].query )
    /\ [][IsPrefix(annotations, annotations')]_vars

\* C12 witness: a request that ended after page.search threw, with an
\* annotation accepted before the throw and a search made after it.
C12_Witness_ThrowThenOn ==
    /\ Returned /\ response.annotations # <<>>
    /\ \E i, j, k \in DOMAIN found :
          i < j /\ j < k /\ found[i].quads # <<>> /\ found[j].threw

\* C13: a request that opened a document handle has destroyed it when it
\* ends, on the normal path and on the exception path alike.
C13_HandleReleased == pc = "done" => handle # "open"

\* C14: if the PDF cannot be opened, locate answers with an error response
\* that carries no annotations, no highlightedPages and no pageMappings.
C14_UnreadableNoPartial ==
    (pc = "done" /\ fault = "openDocument") =>
        /\ response.status = 500
        /\ {"annotations", "highlightedPages", "pageMappings"} \cap DOMAIN response = {}

\* C14 witness: a request ended after openDocument threw.
C14_Witness_OpenFailed == pc = "done" /\ fault = "openDocument" /\ handle = "none"

\* C20: when locate returns annotations, the first one's pageNumber is the
\* first element (the minimum) of highlightedPages, and the list is in
\* non-decreasing pageNumber order.
C20_FirstPageIsMinimum ==
    (Returned /\ response.annotations # <<>>) =>
        LET anns == response.annotations
        IN /\ anns[1].pageNumber = response.highlightedPages[1]
           /\ \A k \in DOMAIN response.highlightedPages :
                 response.highlightedPages[1] <= response.highlightedPages[k]
           /\ \A i, j \in DOMAIN anns : i < j => anns[i].pageNumber <= anns[j].pageNumber

\* C20 witness: a response with annotations on two different pages.
C20_Witness_TwoPages ==
    /\ Returned
    /\ \E i, j \in DOMAIN response.annotations :
          response.annotations[i].pageNumber < response.annotations[j].pageNumber

SingleShortSentence(e) ==
    /\ Len(Trim(e)) > 15
    /\ Len(SplitSentences(e)) = 1
    /\ Len(SplitWords(Trim(e))) < 6

\* every search of page p answered exactly the quad q, every other page nothing
FoundOnce(p, q) ==
    /\ \E i \in DOMAIN found : found[i].page = p
    /\ \A i \in DOMAIN found :
          found[i].quads = (IF found[i].page = p THEN <<q>> ELSE <<>>)

\* C21: a single excerpt of trimmed length > 15 with no internal sentence
\* boundary and fewer than 6 words, found as exactly one quad on exactly
\* one page p: locate returns exactly one annotation, on page p with the
\* quad's box, and highlightedPages = [p]; the repeated search of the same
\* text as a sentence adds no second annotation.
C21_SingleHitSingleAnnotation ==
    (Returned /\ Len(excerpts) = 1 /\ SingleShortSentence(excerpts[1])) =>
        \A p \in 1..MaxPages, q \in QuadSet :
            FoundOnce(p, q) =>
                /\ Len(response.annotations) = 1
                /\ response.annotations[1].pageNumber = p
                /\ response.annotations[1].coordinates = Envelope(q)
                /\ response.highlightedPages = <<p>>

\* a box grown by t units on every side
Expand(b, t) ==
    [x |-> b.x - U(t), y |-> b.y - U(t),
     width |-> b.width + 2 * U(t), height |-> b.height + 2 * U(t)]

\* two boxes with a point in common
Intersect(a, b) ==
    /\ a.x <= b.x + b.width /\ b.x <= a.x + a.width
    /\ a.y <= b.y + b.height /\ b.y <= a.y + a.height

EnvelopeOfBox(b) ==
    [x |-> Min2(b.x, b.x + b.width), y |-> Min2(b.y, b.y + b.height),
     width  |-> Max2(b.width, 0 - b.width),
     height |-> Max2(b.height, 0 - b.height)]

BothExpandedIntersect(a, b) ==
    Intersect(Expand(EnvelopeOfBox(a), 10), Expand(EnvelopeOfBox(b), 10))

CandidateExpandedIntersect(a, b) == Intersect(Expand(a, 10), b)

IsChecked(a) == a.strategy \in {"sentence", "phrase"}

HasCandidate(i, n) == n \in DOMAIN found[i].quads

\* C23, as claimed: a candidate of the overlap test is rejected exactly
\* when its envelope and the existing box's envelope intersect after each
\* of the two is expanded by 10 units on every side.
C23_BothExpandedAsClaimed ==
    /\ \A k \in DOMAIN annotations :
          IsChecked(annotations[k]) =>
             \A j \in 1..(k - 1) :
                annotations[j].pageNumber = annotations[k].pageNumber =>
                   ~ BothExpandedIntersect(annotations[k].coordinates,
                                           annotations[j].coordinates)
    /\ (Returned /\ variant = "enhanced") =>
          \A i \in DOMAIN found, n \in 1..MaxQuads :
             (/\ HasCandidate(i, n)
              /\ \E t \in DOMAIN tasks : /\ tasks[t].kind \in {"sentence", "phrase"}
                                         /\ tasks[t].query = found[i].query) =>
                \E k \in DOMAIN annotations :
                   /\ annotations[k].pageNumber = found[i].page
                   /\ \/ annotations[k].coordinates = BoxOf(found[i].quads[n])
                      \/ BothExpandedIntersect(BoxOf(found[i].quads[n]),
                                               annotations[k].coordinates)

\* C23, amended: a candidate of the overlap test is rejected exactly when
\* the candidate's stored box, expanded by 10 units on every side,
\* intersects the existing annotation's stored box: boxes up to 10 units
\* apart are merged, boxes more than 10 units apart are both kept.
C23_CandidateExpanded ==
    /\ \A k \in DOMAIN annotations :
          IsChecked(annotations[k]) =>
             \A j \in 1..(k - 1) :
                annotations[j].pageNumber = annotations[k].pageNumber =>
                   ~ CandidateExpandedIntersect(annotations[k].coordinates,
                                                annotations[j].coordinates)
    /\ (Returned /\ variant = "enhanced") =>
          \A i \in DOMAIN found, n \in 1..MaxQuads :
             (/\ HasCandidate(i, n)
              /\ \E t \in DOMAIN tasks : /\ tasks[t].kind \in {"sentence", "phrase"}
                                         /\ tasks[t].query = found[i].query) =>
                \E k \in DOMAIN annotations :
                   /\ annotations[k].pageNumber = found[i].page
                   /\ \/ annotations[k].coordinates = BoxOf(found[i].quads[n])
                      \/ CandidateExpandedIntersect(BoxOf(found[i].quads[n]),
                                                    annotations[k].coordinates)

\* C23 witness: a sentence or phrase box accepted 15 units below an
\* annotation of its page, both from quads oriented with the text.
C23_Witness_GapBetween10And20 ==
    /\ Returned /\ variant = "enhanced"
    /\ \E k \in DOMAIN annotations : \E j \in 1..(k - 1) :
          /\ IsChecked(annotations[k])
          /\ annotations[j].pageNumber = annotations[k].pageNumber
          /\ BothExpandedIntersect(annotations[k].coordinates, annotations[j].coordinates)
          /\ annotations[j].coordinates.width > 0 /\ annotations[k].coordinates.width > 0

\* a segment that is a sentence or a word window of an excerpt, not the
\* whole excerpt
FromSentenceOrWindow(a) ==
    \/ a.strategy \in {"sentence", "phrase"}
    \/ a.strategy = "segment" /\ ~ IsTrimmedExcerpt(a.excerpt)

\* C25: a box found by a sentence or word-window segment is accepted only
\* if it does not tolerance-overlap any annotation already accepted in this
\* request on the same page; accepted boxes are recorded at once, so later
\* quads, segments and excerpts on that page are tested against them.
C25_CheckedAgainstAccepted ==
    \A k \in DOMAIN annotations :
        FromSentenceOrWindow(annotations[k]) =>
            \A j \in 1..(k - 1) :
                annotations[j].pageNumber = annotations[k].pageNumber =>
                    ~ ToleranceIntersect(annotations[k].coordinates,
                                         annotations[j].coordinates)

\* a searched text that is a word window: a phrase of the enhanced search,
\* or a segment that is neither a whole excerpt nor a sentence
IsWindowSearch(kind, q) ==
    \/ kind = "phrase"
    \/ kind = "segment" /\ ~ IsTrimmedExcerpt(q) /\ ~ IsTrimmedSentence(q)

\* q is n consecutive words of one sentence of one excerpt, 6 <= n <= 12
WindowOfOneSentence(q) ==
    \E i \in DOMAIN excerpts :
        \E k \in DOMAIN SplitSentences(excerpts[i]) :
            LET words == SplitWords(Trim(SplitSentences(excerpts[i])[k]))
            IN \E a \in DOMAIN words : \E n \in 6..12 :
                  /\ a + n - 1 <= Len(words)
                  /\ q = JoinSpace(SubSeq(words, a, a + n - 1))

\* C26: every word-window segment that locate searches consists of
\* consecutive words of a single sentence of the excerpt (a window never
\* spans a sentence boundary) and has at least 6 and at most 12 words; an
\* excerpt or sentence of fewer than 6 words yields no window search.
C26_WindowsWithinOneSentence ==
    \A s \in searched : IsWindowSearch(s[1], s[2]) => WindowOfOneSentence(s[2])

RECURSIVE PagesOfMappings(_)
PagesOfMappings(pm) ==
    IF pm = <<>> THEN {} ELSE Range(Head(pm).pages) \cup PagesOfMappings(Tail(pm))

\* C29: in every successful locate response that carries pageMappings, each
\* mapping has a non-empty pages list, the union of all mappings' pages
\* equals highlightedPages, and totalMatches is the number of annotations.
C29_ResponseConsistent ==
    (Returned /\ "pageMappings" \in DOMAIN response) =>
        /\ \A i \in DOMAIN response.pageMappings : response.pageMappings[i].pages # <<>>
        /\ PagesOfMappings(response.pageMappings) = Range(response.highlightedPages)
        /\ response.totalMatches = Len(response.annotations)

\* C29 witness: a response whose mappings name two pages between them.
C29_Witness_TwoMappedPages ==
    /\ Returned /\ "pageMappings" \in DOMAIN response
    /\ Len(response.pageMappings) >= 2
    /\ Len(response.highlightedPages) >= 2

---------------------------------------------------------------------------
(* Citation injector: string operations.                                   *)

Uppers == <<"A","B","C","D","E","F","G","H","I","J","K","L","M","N","O","P","Q","R","S","T","U","V","W","X","Y","Z">>
Lowers == <<"a","b","c","d","e","f","g","h","i","j","k","l","m","n","o","p","q","r","s","t","u","v","w","x","y","z">>
\* String.prototype.toLowerCase, one character
LowerChar(c) ==
    IF \E i \in DOMAIN Uppers : Uppers[i] = c
    THEN Lowers[CHOOSE i \in DOMAIN Uppers : Uppers[i] = c]
    ELSE c
ToLowerCase(s) == [i \in DOMAIN s |-> LowerChar(s[i])]

\* hay.includes(needle)
Includes(hay, needle) ==
    \E i \in 0..(Len(hay) - Len(needle)) : SubSeq(hay, i + 1, i + Len(needle)) = needle

\* s.startsWith(prefix)
StartsWith(s, prefix) ==
    Len(prefix) <= Len(s) /\ SubSeq(s, 1, Len(prefix)) = prefix

\* s.substring(0, n)
Substring0(s, n) == SubSeq(s, 1, Min2(n, Len(s)))

\* s.split(c)[0]
BeforeFirst(s, c) ==
    IF \E i \in DOMAIN s : s[i] = c
    THEN SubSeq(s, 1, (CHOOSE i \in DOMAIN s :
                          s[i] = c /\ \A j \in 1..(i - 1) : s[j] # c) - 1)
    ELSE s

Digits == <<"0", "1", "2", "3", "4", "5", "6", "7", "8", "9">>
\* `${n}` of a page number
RECURSIVE NumberToString(_)
NumberToString(n) ==
    IF n < 0 THEN <<"-">> \o NumberToString(0 - n)
    ELSE IF n < 10 THEN <<Digits[n + 1]>>
    ELSE NumberToString(n \div 10) \o <<Digits[(n % 10) + 1]>>

\* pages.join(', ')
RECURSIVE JoinPages(_)
JoinPages(ps) ==
    IF ps = <<>> THEN <<>>
    ELSE IF Len(ps) = 1 THEN NumberToString(ps[1])
    ELSE NumberToString(ps[1]) \o <<",", SP>> \o JoinPages(Tail(ps))

\* mutant of PageList: the abbreviated form "p. N" / "pp. N, M"
PageListAbbreviated(pages) ==
    IF Len(pages) = 1
    THEN <<"p", ".", SP>> \o NumberToString(pages[1])
    ELSE <<"p", "p", ".", SP>> \o JoinPages(pages)

\* pages.length === 1 ? `page ${pages[0]}` : `pages ${pages.join(', ')}`
PageList(pages) ==
    IF Len(pages) = 1
    THEN <<"p", "a", "g", "e", SP>> \o NumberToString(pages[1])
    ELSE <<"p", "a", "g", "e", "s", SP>> \o JoinPages(pages)

OpenPage == <<"(", "p", "a", "g", "e">>

---------------------------------------------------------------------------
(* Citation injector: source -> pages matching (part_011:55-109).          *)

WORD_MIN     == 3    \* part_011:75   w.length > 3
PREFIX_LEN   == 4    \* part_011:81   word.substring(0, 4)
MIN_MATCHES  == 2    \* part_011:87   Math.max(2, threshold)
PHRASE_CHARS == 30   \* part_011:120  source.substring(0, 30)
PHRASE_MIN   == 10   \* part_011:123  phrase.length > 10
KEY_WORDS    == 4    \* part_011:127  .slice(0, 4)

\* s.toLowerCase().split(/\s+/).filter(w => w.length > 3)
LongWords(s) == SelectSeq(SplitWords(ToLowerCase(s)), LAMBDA w : Len(w) > WORD_MIN)

\* ew.includes(word) || word.includes(ew) || ew.startsWith(word.substring(0, 4))
\*   || word.startsWith(ew.substring(0, 4))
WordsRelated(word, ew) ==
    \/ Includes(ew, word)
    \/ Includes(word, ew)
    \/ StartsWith(ew, Substring0(word, PREFIX_LEN))
    \/ StartsWith(word, Substring0(ew, PREFIX_LEN))

\* sourceWords.filter(word => excerptWords.some(...)).length
WordMatches(source, excerpt) ==
    LET sourceWords == LongWords(source)
        excerptWords == LongWords(excerpt)
    IN Cardinality({i \in DOMAIN sourceWords :
                       \E k \in DOMAIN excerptWords :
                           WordsRelated(sourceWords[i], excerptWords[k])})

\* matches >= Math.max(2, Math.min(sourceWords.length, excerptWords.length) * 0.2)
\* (n >= m * 0.2 is 5 * n >= m for the integers that occur here)
IsFuzzyMatch(source, excerpt) ==
    LET matches == WordMatches(source, excerpt)
        least == Min2(Len(LongWords(source)), Len(LongWords(excerpt)))
    IN matches >= MIN_MATCHES /\ 5 * matches >= least

\* pageMappings.find(pred): index of the first mapping that satisfies it, or 0
FirstIndex(pm, Pred(_)) ==
    IF \E i \in DOMAIN pm : Pred(pm[i])
    THEN CHOOSE i \in DOMAIN pm : Pred(pm[i]) /\ \A j \in 1..(i - 1) : ~ Pred(pm[j])
    ELSE 0

exactMatch(source, pm) == FirstIndex(pm, LAMBDA m : m.excerpt = source)
fuzzyMatch(source, pm) == FirstIndex(pm, LAMBDA m : IsFuzzyMatch(source, m.excerpt))

\* mutant of ResolveSource: the fuzzy match tried before the exact match
ResolveSourceFuzzyFirst(source, sourceIndex, pm) ==
    IF fuzzyMatch(source, pm) # 0
    THEN [strategy |-> "fuzzy", mapping |-> fuzzyMatch(source, pm),
          pages |-> pm[fuzzyMatch(source, pm)].pages]
    ELSE IF exactMatch(source, pm) # 0
    THEN [strategy |-> "exact", mapping |-> exactMatch(source, pm),
          pages |-> pm[exactMatch(source, pm)].pages]
    ELSE IF sourceIndex < Len(pm)
    THEN [strategy |-> "positional", mapping |-> sourceIndex + 1,
          pages |-> pm[sourceIndex + 1].pages]
    ELSE [strategy |-> "none", mapping |-> 0, pages |-> <<>>]

\* one iteration of sources.forEach((source, sourceIndex) => ...); sourceIndex is 0-based
ResolveSource(source, sourceIndex, pm) ==
    IF exactMatch(source, pm) # 0
    THEN [strategy |-> "exact", mapping |-> exactMatch(source, pm),
          pages |-> pm[exactMatch(source, pm)].pages]
    ELSE IF fuzzyMatch(source, pm) # 0
    THEN [strategy |-> "fuzzy", mapping |-> fuzzyMatch(source, pm),
          pages |-> pm[fuzzyMatch(source, pm)].pages]
    ELSE IF sourceIndex < Len(pm)
    THEN [strategy |-> "positional", mapping |-> sourceIndex + 1,
          pages |-> pm[sourceIndex + 1].pages]
    ELSE [strategy |-> "none", mapping |-> 0, pages |-> <<>>]

ResolveAll(srcs, pm) == [i \in DOMAIN srcs |-> ResolveSource(srcs[i], i - 1, pm)]

\* sourceToPages.set(source, pages): a Map keeps a key's first position
MapSet(m, key, value) ==
    IF \E i \in DOMAIN m : m[i].source = key
    THEN [i \in DOMAIN m |-> IF m[i].source = key
                             THEN [source |-> key, pages |-> value] ELSE m[i]]
    ELSE Append(m, [source |-> key, pages |-> value])

RECURSIVE SourceToPagesFrom(_, _, _, _)
SourceToPagesFrom(srcs, i, pm, m) ==
    IF i > Len(srcs) THEN m
    ELSE LET r == ResolveSource(srcs[i], i - 1, pm)
         IN SourceToPagesFrom(srcs, i + 1, pm,
                IF r.strategy = "none" THEN m ELSE MapSet(m, srcs[i], r.pages))
sourceToPages(srcs, pm) == SourceToPagesFrom(srcs, 1, pm, <<>>)


---------------------------------------------------------------------------
(* Citation injector: text rewriting (part_011:116-146).                   *)

\* [source.substring(0, 30).trim(), source.split('.')[0].trim(),
\*  source.split(',')[0].trim()].filter(phrase => phrase.length > 10)
keyPhrases(source) ==
    SelectSeq(<<Trim(Substring0(source, PHRASE_CHARS)),
                Trim(BeforeFirst(source, ".")),
                Trim(BeforeFirst(source, ","))>>,
              LAMBDA phrase : Len(phrase) > PHRASE_MIN)

\* phrase.split(/\s+/).filter(w => w.length > 3).slice(0, 4)
keyWords(phrase) ==
    LET ws == SelectSeq(SplitWords(phrase), LAMBDA w : Len(w) > WORD_MIN)
    IN SubSeq(ws, 1, Min2(KEY_WORDS, Len(ws)))

\* every word the regex is built from for one source, in loop order
WordsOf(source) ==
    LET ph == keyPhrases(source)
    IN Flatten([i \in DOMAIN ph |-> keyWords(ph[i])])

\* index of the first [.!?] at or after i, Len(text) + 1 if there is none
FirstPunct(text, i) ==
    IF \E e \in i..Len(text) : text[e] \in Punct
    THEN CHOOSE e \in i..Len(text) :
            text[e] \in Punct /\ \A d \in i..(e - 1) : text[d] \notin Punct
    ELSE Len(text) + 1

\* the word, escaped, matches at p under the i flag
WordAt(text, p, word) ==
    /\ p + Len(word) - 1 <= Len(text)
    /\ \A j \in DOMAIN word : LowerChar(text[p + j - 1]) = LowerChar(word[j])

\* positions of the word at which ([^.!?]*word[^.!?]*?)([.!?]) matches from start
WordPositions(text, start, word) ==
    {p \in start..Min2(FirstPunct(text, start), Len(text)) :
        /\ WordAt(text, p, word)
        /\ FirstPunct(text, p + Len(word)) <= Len(text)}

\* mutant of Cite: the "(page" guard dropped
CiteAlways(beforePunct, punct, pages) ==
    beforePunct \o <<SP, "(">> \o PageList(pages) \o <<")">> \o <<punct>>

\* mutant of Cite: beforePunct trimmed before the citation is appended
CiteTrimmed(beforePunct, punct, pages) ==
    IF ~ Includes(beforePunct, OpenPage)
    THEN Trim(beforePunct) \o <<SP, "(">> \o PageList(pages) \o <<")">> \o <<punct>>
    ELSE beforePunct \o <<punct>>

\* the replace callback: beforePunct, punct -> replacement
Cite(beforePunct, punct, pages) ==
    IF ~ Includes(beforePunct, OpenPage)
    THEN beforePunct \o <<SP, "(">> \o PageList(pages) \o <<")">> \o <<punct>>
    ELSE beforePunct \o <<punct>>

\* modifiedResponse.replace(regex, callback) with the g flag, from position pos:
\* the leftmost start that matches, the greedy prefix taking the last word
\* position that still lets the rest match, the lazy tail ending at the
\* first punctuation after the word
RECURSIVE ReplaceFrom(_, _, _, _)
ReplaceFrom(text, pos, word, pages) ==
    LET starts == {st \in pos..Len(text) : WordPositions(text, st, word) # {}}
    IN IF starts = {} THEN SubSeq(text, pos, Len(text))
       ELSE LET st == CHOOSE a \in starts : \A b \in starts : a <= b
                ps == WordPositions(text, st, word)
                p  == CHOOSE a \in ps : \A b \in ps : a >= b
                e  == FirstPunct(text, p + Len(word))
            IN SubSeq(text, pos, st - 1)
               \o Cite(SubSeq(text, st, e - 1), text[e], pages)
               \o ReplaceFrom(text, e + 1, word, pages)

ReplaceWord(text, word, pages) == ReplaceFrom(text, 1, word, pages)

RECURSIVE ReplaceWords(_, _, _)
ReplaceWords(text, words, pages) ==
    IF words = <<>> THEN text
    ELSE ReplaceWords(ReplaceWord(text, Head(words), pages), Tail(words), pages)

\* mutant of InjectEntries: the entries visited last to first
RECURSIVE InjectEntriesLastFirst(_, _)
InjectEntriesLastFirst(text, entries) ==
    IF entries = <<>> THEN text
    ELSE LET last == entries[Len(entries)]
         IN InjectEntriesLastFirst(ReplaceWords(text, WordsOf(last.source), last.pages),
                                   SubSeq(entries, 1, Len(entries) - 1))

\* sourceToPages.forEach((pages, source) => ...)
RECURSIVE InjectEntries(_, _)
InjectEntries(text, entries) ==
    IF entries = <<>> THEN text
    ELSE InjectEntries(ReplaceWords(text, WordsOf(Head(entries).source),
                                    Head(entries).pages),
                       Tail(entries))

injectPageCitations(text, srcs, pm) == InjectEntries(text, sourceToPages(srcs, pm))


---------------------------------------------------------------------------
(* Citation injector: inputs and the double run.                           *)

AnsScenarioD == <<"V","i","r","u","s","e","s"," ","r","e","p","l","i","c","a","t","e"," ","i","n","s","i","d","e"," ","h","o","s","t"," ","c","e","l","l","s",".">>
AnsThree     == <<"C","e","l","l","s"," ","d","i","v","i","d","e","!"," ","V","i","r","u","s","e","s"," ","r","e","p","l","i","c","a","t","e","?"," ","H","o","s","t","s"," ","g","e","t"," ","s","i","c","k",".">>
AnsNoPunct   == <<"H","o","s","t","s"," ","g","e","t"," ","s","i","c","k">>
AnsNumbered  == <<"v","v","v","v","."," ","(","p","a","g","e"," ","1","2",")","."," ","1","2",")","."," ","c",".">>
Answers == {AnsScenarioD, AnsThree, AnsNoPunct, AnsNumbered}

SrcScenarioD == <<"V","i","r","u","s","e","s"," ","r","e","p","l","i","c","a","t","e"," ","i","n","s","i","d","e"," ","h","o","s","t"," ","c","e","l","l","s"," ","a","n","d"," ","d","e","s","t","r","o","y"," ","t","h","e","m",".">>
SrcHostCells == <<"V","i","r","u","s","e","s"," ","r","e","p","l","i","c","a","t","e"," ","i","n","s","i","d","e"," ","h","o","s","t"," ","c","e","l","l","s">>
SrcHosts     == <<"H","o","s","t","s"," ","g","e","t"," ","s","i","c","k"," ","t","o","d","a","y">>
SrcNumbered  == <<"1","2",")","."," ","a",","," ","v","v","v","v">>
SourceLists ==
    { <<>>, <<SrcScenarioD>>, <<SrcHostCells>>, <<SrcHosts, SrcScenarioD>>,
      <<SrcHosts, SrcHosts>>, <<SrcNumbered>> }

PageMapping(excerpt, pages) == [excerpt |-> excerpt, pages |-> pages]
MappingLists ==
    { <<>>,
      <<PageMapping(SrcScenarioD, <<18>>)>>,
      <<PageMapping(<<"V","i","r","u","s","e","s"," ","r","e","p","l","i","c","a","t","e">>, <<1>>), PageMapping(SrcHostCells, <<2, 5>>)>>,
      <<PageMapping(<<"a","b","c","d"," ","e","f","g","h">>, <<3>>)>>,
      <<PageMapping(SrcNumbered, <<12>>)>>,
      <<PageMapping(SrcHosts, <<3>>), PageMapping(SrcScenarioD, <<18>>)>> }

InitInject ==
    /\ ipc = "start"
    /\ aiResponse \in Answers
    /\ sources \in SourceLists
    /\ mappings \in MappingLists
    /\ once = <<>> /\ twice = <<>> /\ resolved = <<>>
    /\ LocIdle /\ ChatIdle /\ TurnIdle /\ PairIdle

\* injectPageCitations(aiResponse, sources, pageMappings)
Inject ==
    /\ ipc = "start"
    /\ resolved' = ResolveAll(sources, mappings)
    /\ once' = injectPageCitations(aiResponse, sources, mappings)
    /\ ipc' = "once"
    /\ UNCHANGED <<aiResponse, sources, mappings, twice>>
    /\ UNCHANGED <<locVars, chatVars, turnVars, pairVars>>

\* injectPageCitations run again over its own output
InjectAgain ==
    /\ ipc = "once"
    /\ twice' = injectPageCitations(once, sources, mappings)
    /\ ipc' = "done"
    /\ UNCHANGED <<aiResponse, sources, mappings, once, resolved>>
    /\ UNCHANGED <<locVars, chatVars, turnVars, pairVars>>

NextInject == Inject \/ InjectAgain

SpecInject == InitInject /\ [][NextInject]_vars

---------------------------------------------------------------------------
(* Citation injector: properties.                                          *)

\* C2: injectPageCitations is idempotent: a second run over its own output
\* changes nothing.
C2_Idempotent == ipc = "done" => twice = once

\* C5: the mapping taken by the fuzzy step has the highest word-match count
\* of all mappings, and that count is >= max(2, 0.2 * min(word counts)).
C5_FuzzyTakesHighest ==
    ipc # "start" =>
        \A i \in DOMAIN sources :
            resolved[i].strategy = "fuzzy" =>
                LET taken == mappings[resolved[i].mapping].excerpt
                    count == WordMatches(sources[i], taken)
                IN /\ \A k \in DOMAIN mappings :
                          WordMatches(sources[i], mappings[k].excerpt) <= count
                   /\ count >= 2
                   /\ 5 * count >= Min2(Len(LongWords(sources[i])), Len(LongWords(taken)))

HasExact(src) == \E k \in DOMAIN mappings : mappings[k].excerpt = src
HasFuzzy(src) == \E k \in DOMAIN mappings : IsFuzzyMatch(src, mappings[k].excerpt)

\* C6: each source is resolved by the first strategy that succeeds: exact
\* equality with a mapping's excerpt, else a fuzzy match, else the mapping at
\* the source's own index, else nothing; sources that resolve to nothing
\* cause no citation.
C6_FirstStrategyWins ==
    ipc # "start" =>
        /\ \A i \in DOMAIN sources :
              LET r == resolved[i]
              IN IF HasExact(sources[i])
                 THEN /\ r.strategy = "exact"
                      /\ mappings[r.mapping].excerpt = sources[i]
                      /\ r.pages = mappings[r.mapping].pages
                 ELSE IF HasFuzzy(sources[i])
                 THEN /\ r.strategy = "fuzzy"
                      /\ IsFuzzyMatch(sources[i], mappings[r.mapping].excerpt)
                      /\ r.pages = mappings[r.mapping].pages
                 ELSE IF i <= Len(mappings)
                 THEN /\ r.strategy = "positional"
                      /\ r.pages = mappings[i].pages
                 ELSE r.strategy = "none"
        /\ (\A i \in DOMAIN sources : resolved[i].strategy = "none")
              => once = aiResponse

\* C6 witness: a source was resolved by exact match although another mapping,
\* earlier in the list, passes the fuzzy test.
C6_Witness_ExactBeforeFuzzy ==
    /\ ipc = "once"
    /\ \E i \in DOMAIN sources :
          /\ resolved[i].strategy = "exact"
          /\ fuzzyMatch(sources[i], mappings) # 0
          /\ fuzzyMatch(sources[i], mappings) < resolved[i].mapping

---------------------------------------------------------------------------
(* Citation renderer: renderContentWithCitations of CitableMessage.        *)

IsDigit(c) == \E d \in DOMAIN Digits : Digits[d] = c
DigitValue(c) == (CHOOSE d \in DOMAIN Digits : Digits[d] = c) - 1

\* the character class [\d,\s]
InCitationClass(c) == IsDigit(c) \/ c = "," \/ IsSpace(c)

\* end of the longest run of [\d,\s] characters that starts at i (i - 1 if none)
RECURSIVE ClassRunEnd(_, _)
ClassRunEnd(text, i) ==
    IF i <= Len(text) /\ InCitationClass(text[i]) THEN ClassRunEnd(text, i + 1)
    ELSE i - 1

\* /\((pages?\s+[\d,\s]+)\)/ tried at position i: 0 if it fails there, else
\* the position of the closing parenthesis
CitationEnd(text, i) ==
    IF ~ (i + 4 <= Len(text) /\ SubSeq(text, i, i + 4) = OpenPage) THEN 0
    ELSE LET a == IF i + 5 <= Len(text) /\ text[i + 5] = "s" THEN i + 6 ELSE i + 5
             e == ClassRunEnd(text, a)
         IN IF /\ a <= Len(text) /\ IsSpace(text[a])
               /\ e >= a + 1
               /\ e + 1 <= Len(text) /\ text[e + 1] = ")"
            THEN e + 1
            ELSE 0

\* match[1]: "page 5" or "pages 2, 5, 7"
CitationText(text, i) == SubSeq(text, i + 1, CitationEnd(text, i) - 1)

\* citationText.replace(/pages?/g, '')
RECURSIVE StripPages(_)
StripPages(t) ==
    IF t = <<>> THEN <<>>
    ELSE IF StartsWith(t, <<"p", "a", "g", "e", "s">>) THEN StripPages(SubSeq(t, 6, Len(t)))
    ELSE IF StartsWith(t, <<"p", "a", "g", "e">>) THEN StripPages(SubSeq(t, 5, Len(t)))
    ELSE <<Head(t)>> \o StripPages(Tail(t))

\* t.split(',')
RECURSIVE SplitComma(_, _)
SplitComma(t, cur) ==
    IF t = <<>> THEN <<cur>>
    ELSE IF Head(t) = "," THEN <<cur>> \o SplitComma(Tail(t), <<>>)
    ELSE SplitComma(Tail(t), Append(cur, Head(t)))

\* parseInt(t): the value of the leading digits, <<>> for NaN
RECURSIVE LeadingDigits(_, _)
LeadingDigits(t, acc) ==
    IF t # <<>> /\ IsDigit(Head(t))
    THEN LeadingDigits(Tail(t), 10 * acc + DigitValue(Head(t)))
    ELSE acc
ParseInt(t) ==
    LET u == DropLeft(t)
    IN IF u # <<>> /\ IsDigit(Head(u)) THEN <<LeadingDigits(u, 0)>> ELSE <<>>

\* .split(',').map(p => parseInt(p.trim())).filter(p => !isNaN(p))
pageNumbers(citationText) ==
    LET parts == SplitComma(StripPages(citationText), <<>>)
    IN Flatten([k \in DOMAIN parts |-> ParseInt(Trim(parts[k]))])

\* while ((match = citationRegex.exec(text)) !== null): the matches from i on
RECURSIVE CitationMatches(_, _)
CitationMatches(text, i) ==
    IF i > Len(text) THEN <<>>
    ELSE IF CitationEnd(text, i) = 0 THEN CitationMatches(text, i + 1)
    ELSE <<[index |-> i, pages |-> pageNumbers(CitationText(text, i))]>>
         \o CitationMatches(text, CitationEnd(text, i) + 1)

renderContentWithCitations(text) == CitationMatches(text, 1)

---------------------------------------------------------------------------
(* Citation injector and renderer: properties of the written citations.    *)

\* the citation the injector writes for a page list
WrittenCitation(pages) == <<"(">> \o PageList(pages) \o <<")">>

OccursAt(text, p, piece) ==
    p + Len(piece) - 1 <= Len(text) /\ SubSeq(text, p, p + Len(piece) - 1) = piece

\* the non-empty page lists the injector cites from
CitedPages == {resolved[i].pages : i \in DOMAIN resolved} \ {<<>>}

\* C17: every citation the injector writes for a non-empty page list is
\* matched by the renderer's regex, and the page numbers parsed from it are
\* that list, in order.
C17_CitationRoundTrip ==
    ipc # "start" =>
        \A P \in CitedPages :
            /\ renderContentWithCitations(WrittenCitation(P)) = <<[index |-> 1, pages |-> P]>>
            /\ \A p \in DOMAIN once :
                  OccursAt(once, p, WrittenCitation(P)) =>
                      \E k \in DOMAIN renderContentWithCitations(once) :
                          renderContentWithCitations(once)[k] = [index |-> p, pages |-> P]

\* C17 witness: the injector wrote a citation of several pages and one of a
\* page number of two digits.
C17_Witness_Written ==
    /\ ipc = "once" /\ once # aiResponse
    /\ \E P \in CitedPages :
          (Len(P) > 1 \/ P[1] > 9) /\ \E p \in DOMAIN once : OccursAt(once, p, WrittenCitation(P))

\* text.split(/[.!?]/): the sentence spans
RECURSIVE SpansOf(_, _)
SpansOf(t, cur) ==
    IF t = <<>> THEN <<cur>>
    ELSE IF Head(t) \in Punct THEN <<cur>> \o SpansOf(Tail(t), <<>>)
    ELSE SpansOf(Tail(t), Append(cur, Head(t)))

CitationStarts(t) == {p \in DOMAIN t : OccursAt(t, p, OpenPage)}

\* C18: for an answer without "(page", after injection every sentence span
\* holds at most one citation, and every citation is a written citation of a
\* resolved page list that stands, after one space, immediately before the
\* punctuation that ends its span.
C18_OneCitationPerSpan ==
    (ipc # "start" /\ ~ Includes(aiResponse, OpenPage)) =>
        /\ \A k \in DOMAIN SpansOf(once, <<>>) :
              Cardinality(CitationStarts(SpansOf(once, <<>>)[k])) <= 1
        /\ \A p \in CitationStarts(once) :
              \E i \in DOMAIN resolved :
                  LET c == WrittenCitation(resolved[i].pages)
                  IN /\ OccursAt(once, p, c)
                     /\ p > 1 /\ once[p - 1] = SP
                     /\ p + Len(c) <= Len(once) /\ once[p + Len(c)] \in Punct

\* C18 witness: an answer without "(page" that came out with citations in
\* two of its sentence spans.
C18_Witness_TwoCited ==
    /\ ipc = "once" /\ ~ Includes(aiResponse, OpenPage)
    /\ Cardinality(CitationStarts(once)) >= 2

\* a key word of the source stands in the span
HasKeyWord(source, span) ==
    \E n \in DOMAIN WordsOf(source) :
        \E p \in DOMAIN span : WordAt(span, p, WordsOf(source)[n])

CitedSpan(span, pages) == span \o <<SP>> \o WrittenCitation(pages)

\* the entries of sourceToPages with a key word in the span
Candidates(m, span) == {i \in DOMAIN m : HasKeyWord(m[i].source, span)}

RECURSIVE IsOrigPlusCitations(_, _)
IsOrigPlusCitations(orig, out) ==
    IF out = <<>> THEN orig = <<>>
    ELSE \/ /\ orig # <<>> /\ Head(orig) = Head(out)
            /\ IsOrigPlusCitations(Tail(orig), Tail(out))
         \/ \E P \in CitedPages :
               LET c == <<SP>> \o WrittenCitation(P)
               IN /\ OccursAt(out, 1, c)
                  /\ IsOrigPlusCitations(orig, SubSeq(out, Len(c) + 1, Len(out)))

\* C28: injectPageCitations only inserts citation text: deleting every
\* inserted " (page N)" / " (pages N, M, ...)" from its output gives back
\* the answer character for character, and when sources or pageMappings is
\* empty the output equals the input.
C28_OnlyInserts ==
    ipc # "start" =>
        /\ IsOrigPlusCitations(aiResponse, once)
        /\ (sources = <<>> \/ mappings = <<>>) => once = aiResponse

\* C28 witness: an answer whose sentences begin with a space came out with
\* two citations inserted.
C28_Witness_TwoInserted ==
    /\ ipc = "once"
    /\ Cardinality(CitationStarts(once)) >= Cardinality(CitationStarts(aiResponse)) + 2
    /\ \E k \in DOMAIN SpansOf(aiResponse, <<>>) :
          LET span == SpansOf(aiResponse, <<>>)[k]
          IN span # <<>> /\ Head(span) = SP /\ SpansOf(once, <<>>)[k] # span


---------------------------------------------------------------------------
(* Chat orchestration: POST /api/chat (src/app/api/chat/route.ts).         *)

\* JavaScript values that reach the handler
Undefined == [type |-> "undefined"]
JsString(chars) == [type |-> "string", chars |-> chars]
JsArray(items) == [type |-> "array", items |-> items]
JsNumber(n) == [type |-> "number", num |-> n]

\* s.split(". ")
RECURSIVE SplitDotSpaceFrom(_, _, _)
SplitDotSpaceFrom(s, i, cur) ==
    IF i > Len(s) THEN <<cur>>
    ELSE IF i < Len(s) /\ s[i] = "." /\ s[i + 1] = SP
         THEN <<cur>> \o SplitDotSpaceFrom(s, i + 2, <<>>)
         ELSE SplitDotSpaceFrom(s, i + 1, Append(cur, s[i]))
SplitDotSpace(s) == SplitDotSpaceFrom(s, 1, <<>>)

\* what JSON.parse(result.text) does: throws, or yields the value the text
\* encodes; the texts are paired with that value where they are chosen
SyntaxError == [kind |-> "SyntaxError"]
JsonNull == [kind |-> "null"]
JsonObject(answer, srcs) == [kind |-> "object", answer |-> answer, sources |-> srcs]

TxtFreeform == <<"J","u","s","t"," ","s","o","m","e"," ","f","r","e","e","f","o","r","m"," ","t","e","x","t">>
TxtYes      == <<"Y","e","s">>
TxtAnswer   == <<"V","i","r","u","s","e","s"," ","r","e","p","l","i","c","a","t","e",".">>
StrABC      == <<"A","."," ","B","."," ","C">>
StrA        == <<"A">>
StrB        == <<"B">>
StrC        == <<"C">>
StrTwoSent  == <<"H","o","s","t","s"," ","g","e","t"," ","s","i","c","k","."," ","C","e","l","l","s"," ","d","i","v","i","d","e",".">>

ModelAnswers == {JsString(TxtYes), JsString(TxtAnswer), Undefined}
ModelSources ==
    { JsString(StrABC), JsString(StrTwoSent), JsString(StrA), JsString(<<>>),
      JsArray(<<StrA, StrB>>), JsArray(<<>>), JsArray(<<ExScenarioA>>),
      Undefined, JsNumber(7) }

\* outcomes of qaSystem.invoke: result.text and what JSON.parse makes of it
QAResults ==
    {[text |-> t, parsed |-> SyntaxError] : t \in {TxtFreeform, TxtAnswer, <<>>}}
    \cup {[text |-> <<"n", "u", "l", "l">>, parsed |-> JsonNull]}
    \cup {[text |-> <<"{", "}">>, parsed |-> JsonObject(a, x)] :
             a \in ModelAnswers, x \in ModelSources}

ErrorResponse(status) == [status |-> status]

\* the try block: parsedResult.answer / parsedResult.sources, or the catch
ParsedFields(r) ==
    IF r.parsed.kind = "object"
    THEN [answer |-> r.parsed.answer, sources |-> r.parsed.sources]
    ELSE [answer |-> JsString(r.text), sources |-> JsString(<<>>)]

\* typeof sources === 'string' ? sources.split(". ") : []
sourceArray(srcs) ==
    IF srcs.type = "string" THEN SplitDotSpace(srcs.chars) ELSE <<>>

ChatResponseOf(r) ==
    LET f == ParsedFields(r)
    IN [status |-> 200, answer |-> f.answer, sources |-> sourceArray(f.sources)]

InitChat ==
    /\ cpc = "start"
    /\ chatRequest \in [session : BOOLEAN, message : BOOLEAN, documentId : BOOLEAN,
                        document : BOOLEAN, qaSystem : BOOLEAN]
    /\ result = <<>>
    /\ chatResponse = NoResponse
    /\ LocIdle /\ InjIdle /\ TurnIdle /\ PairIdle

\* the early returns: 401, 400, 404, 500
RejectChat ==
    /\ cpc = "start"
    /\ \/ ~ chatRequest.session /\ chatResponse' = ErrorResponse(401)
       \/ /\ chatRequest.session
          /\ ~ (chatRequest.message /\ chatRequest.documentId)
          /\ chatResponse' = ErrorResponse(400)
       \/ /\ chatRequest.session /\ chatRequest.message /\ chatRequest.documentId
          /\ ~ chatRequest.document
          /\ chatResponse' = ErrorResponse(404)
       \/ /\ chatRequest.session /\ chatRequest.message /\ chatRequest.documentId
          /\ chatRequest.document /\ ~ chatRequest.qaSystem
          /\ chatResponse' = ErrorResponse(500)
    /\ cpc' = "done"
    /\ UNCHANGED <<chatRequest, result>>
    /\ UNCHANGED <<locVars, injVars, turnVars, pairVars>>

\* await qaSystem.invoke({ query: message })
InvokeQA ==
    /\ cpc = "start"
    /\ chatRequest.session /\ chatRequest.message /\ chatRequest.documentId
    /\ chatRequest.document /\ chatRequest.qaSystem
    /\ result' \in QAResults
    /\ cpc' = "invoked"
    /\ UNCHANGED <<chatRequest, chatResponse>>
    /\ UNCHANGED <<locVars, injVars, turnVars, pairVars>>

\* JSON.parse, the sources normalisation and NextResponse.json(response)
RespondChat ==
    /\ cpc = "invoked"
    /\ chatResponse' = ChatResponseOf(result)
    /\ cpc' = "done"
    /\ UNCHANGED <<chatRequest, result>>
    /\ UNCHANGED <<locVars, injVars, turnVars, pairVars>>

\* the outer catch: qaSystem.invoke rejects, the handler answers 500
FailChat ==
    /\ cpc = "start"
    /\ chatRequest.session /\ chatRequest.message /\ chatRequest.documentId
    /\ chatRequest.document /\ chatRequest.qaSystem
    /\ chatResponse' = ErrorResponse(500)
    /\ cpc' = "done"
    /\ UNCHANGED <<chatRequest, result>>
    /\ UNCHANGED <<locVars, injVars, turnVars, pairVars>>

NextChat == RejectChat \/ InvokeQA \/ FailChat \/ RespondChat

SpecChat == InitChat /\ [][NextChat]_vars

---------------------------------------------------------------------------
(* Chat orchestration: properties.                                         *)

Answered == cpc = "done" /\ result # <<>>

\* C3: when result.text is not parseable as JSON the request does not fail:
\* the response carries the raw text as the answer and an empty source list.
C3_UnparseableGivesNoSources ==
    (Answered /\ result.parsed.kind = "SyntaxError") =>
        /\ chatResponse.status = 200
        /\ chatResponse.answer = JsString(result.text)
        /\ chatResponse.sources = <<>>

\* C4: a sources string is split on ". " ("A. B. C" gives A, B, C), and of a
\* sources list every element appears in the returned excerpt list.
C4_SourcesNormalized ==
    (Answered /\ result.parsed.kind = "object") =>
        LET srcs == result.parsed.sources
        IN /\ srcs = JsString(StrABC) => chatResponse.sources = <<StrA, StrB, StrC>>
           /\ srcs.type = "array" =>
                 \A i \in DOMAIN srcs.items :
                     srcs.items[i] \in Range(chatResponse.sources)


---------------------------------------------------------------------------
(* Chat turn in the browser: handleSendMessage, generateHighlightAnnotations *)
(* and generateBasicAnnotationsFromSources.                                *)

\* a source document of the QA chain: metadata.page, or no page at all
SourceDoc(hasPage, page) == [hasPage |-> hasPage, page |-> page]
DocNoPage == SourceDoc(FALSE, 0)
DocPage0  == SourceDoc(TRUE, 0)
DocPage3  == SourceDoc(TRUE, 3)
DocPage5  == SourceDoc(TRUE, 5)
SourceDocLists == {<<>>, <<DocPage3>>, <<DocPage5, DocNoPage, DocPage3>>, <<DocPage0, DocPage3>>}

\* the body of a 200 answer of /api/chat
ChatBody(answer, srcs, docs) ==
    [ok |-> TRUE, answer |-> answer, sources |-> srcs, sourceDocuments |-> docs]
\* fetch('/api/chat') rejects, or answers with a status outside 200..299
ChatFailure(error) == [ok |-> FALSE, error |-> error]

ErrChatFailed == <<"C", "h", "a", "t", " ", "f", "a", "i", "l", "e", "d">>
ErrFetch      == <<"F", "a", "i", "l", "e", "d", " ", "t", "o", " ", "f", "e", "t", "c", "h">>
EmptySource   == <<>>

TurnAnswers == {AnsScenarioD, AnsNoPunct}
TurnSources == {<<>>, <<EmptySource>>, <<SrcScenarioD>>}
ChatReplies ==
    {ChatBody(a, x, d) : a \in TurnAnswers, x \in TurnSources, d \in SourceDocLists}
    \cup {ChatFailure(ErrChatFailed), ChatFailure(ErrFetch)}

\* answers of /api/pdf/search
AnnPage18 == Annotation(18, QLine1, SrcScenarioD, "full_excerpt")
AnnPage2  == Annotation(2, QFar, SrcScenarioD, "full_excerpt")
AnnotationLists == {<<>>, <<AnnPage18>>, <<AnnPage2, AnnPage18>>}

HttpReply(body) == [kind |-> "response", body |-> body]
FetchRejects == [kind |-> "rejects"]
LocateReplies ==
    {HttpReply(EnhancedResponse(a)) : a \in AnnotationLists}
    \cup {HttpReply(SegmentResponse(a)) : a \in AnnotationLists}
    \cup {HttpReply(LocateCatch("openDocument")), HttpReply(ErrorResponse(404)),
          HttpReply([status |-> 200, success |-> TRUE]), FetchRejects}

\* response.ok
IsOk(body) == body.status \in 200..299

HighlightResult(anns, pm) == [threw |-> FALSE, annotations |-> anns, pageMappings |-> pm]

\* mutant of generateHighlightAnnotations: no try/catch, failures propagate
generateHighlightAnnotationsNoCatch(reply) ==
    IF reply.kind = "rejects" \/ ~ IsOk(reply.body)
       \/ "annotations" \notin DOMAIN reply.body
    THEN [threw |-> TRUE, annotations |-> <<>>, pageMappings |-> <<>>]
    ELSE HighlightResult(reply.body.annotations,
                         IF "pageMappings" \in DOMAIN reply.body
                         THEN reply.body.pageMappings ELSE <<>>)

\* generateHighlightAnnotations: a rejected fetch, a status that is not ok and
\* a body without annotations (result.annotations.length throws) all end in
\* the catch, which returns empty lists
generateHighlightAnnotations(reply) ==
    IF reply.kind = "rejects" \/ ~ IsOk(reply.body)
       \/ "annotations" \notin DOMAIN reply.body
    THEN HighlightResult(<<>>, <<>>)
    ELSE HighlightResult(reply.body.annotations,
                         IF "pageMappings" \in DOMAIN reply.body
                         THEN reply.body.pageMappings ELSE <<>>)

\* if (doc.metadata?.page): undefined and 0 are both falsy
HasTruthyPage(doc) == doc.hasPage /\ doc.page # 0

\* coordinates: { x: 50 + index * 10, y: 150 + index * 80, width: 400, height: 60 }
BasicAnnotation(doc, index) ==
    [pageNumber |-> doc.page,
     coordinates |-> [x |-> U(50 + index * 10), y |-> U(150 + index * 80),
                      width |-> U(400), height |-> U(60)]]

\* generateBasicAnnotationsFromSources(sources, sourceDocuments); index is 0-based
generateBasicAnnotationsFromSources(srcs, docs) ==
    Flatten([i \in DOMAIN docs |->
                IF HasTruthyPage(docs[i]) THEN <<BasicAnnotation(docs[i], i - 1)>>
                ELSE <<>>])

\* `I'm sorry, I encountered an error: ${error.message}. Please try again.`
SorryPrefix == <<"I", "'", "m", " ", "s", "o", "r", "r", "y", ",", " ", "I", " ", "e", "n", "c", "o", "u", "n", "t", "e", "r", "e", "d", " ", "a", "n", " ", "e", "r", "r", "o", "r", ":", " ">>
SorrySuffix == <<".", " ", "P", "l", "e", "a", "s", "e", " ", "t", "r", "y", " ", "a", "g", "a", "i", "n", ".">>
errorMessage(error) ==
    [role |-> "ASSISTANT", content |-> SorryPrefix \o error \o SorrySuffix]

aiMessage(content, reply, pm) ==
    [role |-> "ASSISTANT", content |-> content,
     metadata |-> [sources |-> reply.sources,
                   sourceDocuments |-> reply.sourceDocuments,
                   pageMappings |-> pm]]

MaxAttempts == 2

\* injectPageCitations over the answers, sources and pageMappings a turn
\* can be given, evaluated once
CitedAnswers ==
    {[answer |-> a, sources |-> x, pageMappings |-> pm,
      cited |-> injectPageCitations(a, x, pm)] :
        a \in TurnAnswers, x \in TurnSources,
        pm \in {<<>>} \cup {PageMappingsOf(l) : l \in AnnotationLists}}

\* finalAiResponse = injectPageCitations(result.answer, result.sources,
\* highlightResult.pageMappings)
finalAiResponse(answer, srcs, pm) ==
    (CHOOSE r \in CitedAnswers :
        r.answer = answer /\ r.sources = srcs /\ r.pageMappings = pm).cited

InputBlank == <<SP, SP>>
InputQuestion == <<"W", "h", "y", "?">>
InputValues == {<<>>, InputBlank, InputQuestion}

\* mutant of Accepts: the isLoading test dropped
AcceptsWhileLoading(input, loading) == Trim(input) # <<>>

\* if (!inputValue.trim() || isLoading) return;
Accepts(input, loading) == Trim(input) # <<>> /\ ~ loading

userMessage(content) == [role |-> "USER", content |-> content]

\* the component as mounted: useState("") and useState(false); the reply
\* /api/chat will give is fixed from the start.  The model follows the
\* user up to the end of the first accepted send.
InitTurn ==
    /\ tpc = "input"
    /\ chatReply \in ChatReplies
    /\ locateReply = <<>> /\ highlightResult = <<>>
    /\ messages = <<>> /\ added = <<>> /\ navigated = <<>>
    /\ inputValue = <<>> /\ isLoading = FALSE /\ sent = <<>>
    /\ chatCalls = 0 /\ attempts = <<>>
    /\ LocIdle /\ InjIdle /\ ChatIdle /\ PairIdle

\* setInputValue: typing, a suggested question, or a speech transcript
SetInputValue ==
    /\ tpc # "done"
    /\ \E v \in InputValues : v # inputValue /\ inputValue' = v
    /\ UNCHANGED <<tpc, chatReply, locateReply, highlightResult, messages, added,
                   navigated, isLoading, sent, chatCalls, attempts>>
    /\ UNCHANGED <<locVars, injVars, chatVars, pairVars>>

\* handleSendMessage up to its first await: the guard, onSendMessage(userMessage),
\* setInputValue(""), setIsLoading(true), fetch('/api/chat')
handleSendMessage ==
    /\ tpc # "done" /\ Len(attempts) < MaxAttempts
    /\ attempts' = Append(attempts, [inputValue |-> inputValue, isLoading |-> isLoading])
    /\ IF Accepts(inputValue, isLoading)
       THEN /\ sent' = Append(sent, userMessage(inputValue))
            /\ inputValue' = <<>>
            /\ isLoading' = TRUE
            /\ chatCalls' = chatCalls + 1
            /\ tpc' = IF tpc = "input" THEN "sent" ELSE tpc
       ELSE UNCHANGED <<sent, inputValue, isLoading, chatCalls, tpc>>
    /\ UNCHANGED <<chatReply, locateReply, highlightResult, messages, added, navigated>>
    /\ UNCHANGED <<locVars, injVars, chatVars, pairVars>>

\* if (!response.ok) throw ..., or fetch rejects: the outer catch sends the
\* apology; finally setIsLoading(false)
ChatFails ==
    /\ tpc = "sent" /\ ~ chatReply.ok
    /\ messages' = Append(messages, errorMessage(chatReply.error))
    /\ isLoading' = FALSE
    /\ tpc' = "done"
    /\ UNCHANGED <<chatReply, locateReply, highlightResult, added, navigated, inputVars>>
    /\ UNCHANGED <<locVars, injVars, chatVars, pairVars>>

\* const result = await response.json()
ChatAnswers ==
    /\ tpc = "sent" /\ chatReply.ok
    /\ tpc' = "answered"
    /\ UNCHANGED <<chatReply, locateReply, highlightResult, messages, added, navigated,
                   isLoading, inputVars>>
    /\ UNCHANGED <<locVars, injVars, chatVars, pairVars>>

\* if (result.sources && result.sources.length > 0) is false: the answer goes
\* out as it is; finally setIsLoading(false)
DeliverPlain ==
    /\ tpc = "answered" /\ chatReply.sources = <<>>
    /\ messages' = Append(messages, aiMessage(chatReply.answer, chatReply, <<>>))
    /\ isLoading' = FALSE
    /\ tpc' = "done"
    /\ UNCHANGED <<chatReply, locateReply, highlightResult, added, navigated, inputVars>>
    /\ UNCHANGED <<locVars, injVars, chatVars, pairVars>>

\* await generateHighlightAnnotations(document.id, result.sources)
Locate ==
    /\ tpc = "answered" /\ chatReply.sources # <<>>
    /\ \E reply \in LocateReplies :
          LET hr == generateHighlightAnnotations(reply)
          IN /\ locateReply' = reply
             /\ highlightResult' = hr
             /\ IF hr.threw
                THEN /\ messages' = Append(messages, errorMessage(ErrFetch))
                     /\ isLoading' = FALSE
                     /\ tpc' = "done"
                ELSE /\ messages' = messages
                     /\ isLoading' = isLoading
                     /\ tpc' = "located"
    /\ UNCHANGED <<chatReply, added, navigated, inputVars>>
    /\ UNCHANGED <<locVars, injVars, chatVars, pairVars>>

\* highlightResult.annotations.length > 0: add, inject citations, navigate,
\* send; finally setIsLoading(false)
DeliverCited ==
    /\ tpc = "located" /\ highlightResult.annotations # <<>>
    /\ added' = Append(added, highlightResult.annotations)
    /\ navigated' = Append(navigated, highlightResult.annotations[1].pageNumber)
    /\ messages' = Append(messages,
          aiMessage(finalAiResponse(chatReply.answer, chatReply.sources,
                                    highlightResult.pageMappings),
                    chatReply, highlightResult.pageMappings))
    /\ isLoading' = FALSE
    /\ tpc' = "done"
    /\ UNCHANGED <<chatReply, locateReply, highlightResult, inputVars>>
    /\ UNCHANGED <<locVars, injVars, chatVars, pairVars>>

\* no annotations: the basic annotations of the source documents, then send;
\* finally setIsLoading(false)
DeliverFallback ==
    /\ tpc = "located" /\ highlightResult.annotations = <<>>
    /\ LET fallbackAnnotations ==
               generateBasicAnnotationsFromSources(chatReply.sources,
                                                   chatReply.sourceDocuments)
       IN /\ added' = Append(added, fallbackAnnotations)
          /\ navigated' = IF fallbackAnnotations # <<>>
                          THEN Append(navigated, fallbackAnnotations[1].pageNumber)
                          ELSE navigated
    /\ messages' = Append(messages, aiMessage(chatReply.answer, chatReply, <<>>))
    /\ isLoading' = FALSE
    /\ tpc' = "done"
    /\ UNCHANGED <<chatReply, locateReply, highlightResult, inputVars>>
    /\ UNCHANGED <<locVars, injVars, chatVars, pairVars>>

\* the continuations of the awaits of one turn
Continue ==
    ChatFails \/ ChatAnswers \/ DeliverPlain \/ Locate \/ DeliverCited \/ DeliverFallback

NextTurn ==
    \/ SetInputValue \/ handleSendMessage
    \/ ChatFails \/ ChatAnswers \/ DeliverPlain \/ Locate \/ DeliverCited \/ DeliverFallback

SpecTurn == InitTurn /\ [][NextTurn]_vars

\* every awaited fetch settles and its continuation runs: a turn that can
\* go on does go on
SpecTurnFair == SpecTurn /\ WF_vars(Continue)

---------------------------------------------------------------------------
(* Chat turn: properties.                                                  *)

TurnDone == tpc = "done"
Located == TurnDone /\ locateReply # <<>>
IsApology(m) == "metadata" \notin DOMAIN m /\ StartsWith(m.content, SorryPrefix)

\* C15: when locate fails because the document is unreadable, the chat turn
\* ends with an error shown to the user, not with a normal answer and
\* fallback highlights.
C15_UnreadableSurfaced ==
    (Located /\ locateReply = HttpReply(LocateCatch("openDocument"))) =>
        /\ Len(messages) = 1 /\ IsApology(messages[1])
        /\ added = <<>>

\* C16: when the Locator yields no annotation, the assistant message is the
\* model's answer unchanged with an empty pageMappings list, and the fallback
\* adds one coarse annotation per source document that has a page hint.
C16_FallbackPerPageHint ==
    (Located /\ highlightResult.annotations = <<>>) =>
        /\ Len(messages) = 1
        /\ ~ IsApology(messages[1])
        /\ messages[1].content = chatReply.answer
        /\ messages[1].metadata.pageMappings = <<>>
        /\ Len(added) = 1
        /\ LET docs == chatReply.sourceDocuments
               hinted == SelectSeq(docs, LAMBDA d : d.hasPage)
           IN /\ Len(added[1]) = Len(hinted)
              /\ \A k \in DOMAIN hinted : added[1][k].pageNumber = hinted[k].page

\* C19: whenever /api/chat returned an answer, whatever locate did, exactly
\* one assistant message is appended and its content is the answer, cited or
\* not, never the apology.
C19_AnswerAlwaysDelivered ==
    (TurnDone /\ chatReply.ok) =>
        /\ Len(messages) = 1
        /\ ~ IsApology(messages[1])
        /\ \/ messages[1].content = chatReply.answer
           \/ /\ highlightResult # <<>> /\ highlightResult.annotations # <<>>
              /\ messages[1].content =
                    injectPageCitations(chatReply.answer, chatReply.sources,
                                        highlightResult.pageMappings)

\* C19 witness: a turn that ended although locate failed or answered without
\* the fields the caller reads.
C19_Witness_LocateFailed ==
    /\ Located /\ chatReply.ok
    /\ \/ locateReply = FetchRejects
       \/ locateReply.kind = "response" /\ ~ IsOk(locateReply.body)
       \/ locateReply.kind = "response" /\ "annotations" \notin DOMAIN locateReply.body

TurnAnswered == TurnDone /\ Len(messages) = 1 /\ ~ isLoading
                /\ (IsApology(messages[1]) <=> ~ chatReply.ok)

---------------------------------------------------------------------------
(* Two locator requests served by one Node.js process.  A handler gives    *)
(* up control only at its awaits (part_002:19, 27, 37, 51, 52); from       *)
(* openDocument to the return statement it runs without interruption.      *)

MaxClock == 2

\* a stored PDF: what page.search answers, per page and query
Hit(page, query, threw, quads) ==
    [page |-> page, query |-> query, threw |-> threw, quads |-> quads]
DocOnePage ==
    [readable |-> TRUE, pages |-> 1,
     hits |-> <<Hit(1, ExScenarioA, FALSE, <<QLine1>>),
                Hit(1, ExTwoSent, FALSE, <<QLine2>>)>>]
DocTwoPages ==
    [readable |-> TRUE, pages |-> 2,
     hits |-> <<Hit(1, ExTwoSent, FALSE, <<QLine1>>),
                Hit(1, ExScenarioA, FALSE, <<QLine1, QFar>>),
                Hit(2, ExScenarioA, TRUE, <<>>)>>]
DocUnreadable == [readable |-> FALSE, pages |-> 0, hits |-> <<>>]
Documents == <<DocOnePage, DocTwoPages, DocUnreadable>>
PairExcerptLists == {<<ExScenarioA>>, <<ExTwoSent>>}

\* page.search(query) inside its try/catch: the quads, none if it threw
QuadsIn(doc, page, query) ==
    LET at == {i \in DOMAIN doc.hits :
                  doc.hits[i].page = page /\ doc.hits[i].query = query}
    IN IF at = {} THEN <<>> ELSE doc.hits[CHOOSE i \in at : TRUE].quads

\* the search calls of one page, in loop order
RECURSIVE SearchTasks(_, _, _, _, _)
SearchTasks(st, doc, page, ts, i) ==
    IF i > Len(ts) THEN st
    ELSE SearchTasks(AcceptAll(st, page, QuadsIn(doc, page, ts[i].query), ts[i]),
                     doc, page, ts, i + 1)

\* for (let pageNum = 0; pageNum < doc.countPages(); pageNum++)
RECURSIVE SearchPages(_, _, _, _)
SearchPages(st, doc, page, ts) ==
    IF page > doc.pages THEN st
    ELSE SearchPages(SearchTasks(st, doc, page, ts, 1), doc, page + 1, ts)

\* mutant of FreshState: processedCoordinates kept at module level
SharedKeysState(rs) ==
    [anns |-> <<>>, keys |-> UNION {rs[r].keys : r \in DOMAIN rs}]

\* const annotations: any[] = []; const processedCoordinates = new Set<string>()
FreshState(rs) == [anns |-> <<>>, keys |-> {}]

\* id: `ann_${Date.now()}_${pageNum}_${annotations.length}`
AnnotationId(now, page, length) ==
    <<"a", "n", "n", "_">> \o NumberToString(now) \o <<"_">>
        \o NumberToString(page) \o <<"_">> \o NumberToString(length)

\* the ids of a run whose first `early` pushes happen in millisecond `now`
\* and the others in the next one
IdsOf(anns, now, early) ==
    [k \in DOMAIN anns |->
        AnnotationId(IF k <= early THEN now ELSE now + 1,
                     anns[k].pageNumber - 1, k - 1)]

Request(v, exs, d) ==
    [pc |-> "session", variant |-> v, excerpts |-> exs, document |-> d,
     annotations |-> <<>>, keys |-> {}, ids |-> <<>>, response |-> NoResponse]

InitPair ==
    /\ \E v \in {"enhanced", "segment"} :
          requests \in [1..2 -> {Request(v, exs, d) :
                                    exs \in PairExcerptLists, d \in DOMAIN Documents}]
    /\ clock = 0
    /\ LocIdle /\ InjIdle /\ ChatIdle /\ TurnIdle

AwaitOrder == <<"session", "body", "lookup", "fetch", "buffer">>
AfterAwait(p) == AwaitOrder[(CHOOSE i \in DOMAIN AwaitOrder : AwaitOrder[i] = p) + 1]

\* an await of the prologue resolves and the handler runs to its next await
Resume(r) ==
    /\ requests[r].pc \in {"session", "body", "lookup", "fetch"}
    /\ requests' = [requests EXCEPT ![r].pc = AfterAwait(@)]
    /\ UNCHANGED clock

\* no session: 401; no documentId or excerpts array: 400; no document: 404
Refuse(r) ==
    /\ requests[r].pc \in {"session", "body", "lookup"}
    /\ requests' = [requests EXCEPT
          ![r].response = ErrorResponse(CASE requests[r].pc = "session" -> 401
                                           [] requests[r].pc = "body" -> 400
                                           [] OTHER -> 404),
          ![r].pc = "done"]
    /\ UNCHANGED clock

\* fetch(document.fileUrl) or response.arrayBuffer() rejects: the catch block
FetchFails(r) ==
    /\ requests[r].pc \in {"fetch", "buffer"}
    /\ requests' = [requests EXCEPT ![r].response = LocateCatch("fetch"),
                                    ![r].pc = "done"]
    /\ UNCHANGED clock

\* arrayBuffer() resolves: openDocument, the page loop and the response, in
\* one turn of the event loop
Run(r) ==
    /\ requests[r].pc = "buffer"
    /\ LET q == requests[r]
           doc == Documents[q.document]
           st == SearchPages(FreshState(requests), doc, 1,
                             TasksFor(q.variant, q.excerpts))
       IN IF ~ doc.readable
          THEN /\ requests' = [requests EXCEPT
                      ![r].response = LocateCatch("openDocument"), ![r].pc = "done"]
               /\ UNCHANGED clock
          ELSE \E early \in 0..Len(st.anns) :
                 /\ early < Len(st.anns) => clock < MaxClock
                 /\ clock' = IF early < Len(st.anns) THEN clock + 1 ELSE clock
                 /\ requests' = [requests EXCEPT
                       ![r].annotations = st.anns,
                       ![r].keys = st.keys,
                       ![r].ids = IdsOf(st.anns, clock, early),
                       ![r].response = IF q.variant = "enhanced"
                                       THEN EnhancedResponse(st.anns)
                                       ELSE SegmentResponse(st.anns),
                       ![r].pc = "done"]

\* a millisecond passes
Tick ==
    /\ clock < MaxClock
    /\ clock' = clock + 1
    /\ UNCHANGED requests

NextPair ==
    \/ \E r \in 1..2 : Resume(r)
    \/ \E r \in 1..2 : Refuse(r)
    \/ \E r \in 1..2 : FetchFails(r)
    \/ \E r \in 1..2 : Run(r)
    \/ Tick

SpecPair ==
    InitPair /\ [][NextPair /\ UNCHANGED <<locVars, injVars, chatVars, turnVars>>]_vars

---------------------------------------------------------------------------
(* Two locator requests: properties.                                       *)

\* what request r returns when it is the only request of the process
Alone(r) ==
    LET q == requests[r]
        st == SearchPages([anns |-> <<>>, keys |-> {}], Documents[q.document], 1,
                          TasksFor(q.variant, q.excerpts))
    IN IF q.variant = "enhanced" THEN EnhancedResponse(st.anns)
       ELSE SegmentResponse(st.anns)

Succeeded(r) == requests[r].pc = "done" /\ requests[r].response.status = 200

\* C22: two locate requests interleaved at their await points share no
\* mutable state: whatever the interleaving, the annotations, pageMappings
\* and highlightedPages each returns are those it returns when run alone,
\* so the duplicate and overlap suppression of one request neither rejects
\* nor admits a box in the other.
C22_RequestsIndependent ==
    \A r \in DOMAIN requests : Succeeded(r) => requests[r].response = Alone(r)

\* C22 witness: both requests searched the same document for the same
\* excerpts and both returned annotations.
C22_Witness_SameDocumentTwice ==
    /\ requests # <<>>
    /\ Succeeded(1) /\ Succeeded(2)
    /\ requests[1].document = requests[2].document
    /\ requests[1].excerpts = requests[2].excerpts
    /\ requests[1].annotations # <<>> /\ requests[2].annotations # <<>>

\* C24: every annotation's id is unique: no two annotations produced by
\* locate, in the same request or in two different (possibly concurrent,
\* same-millisecond) requests, have the same id.
C24_IdsUnique ==
    \A r, s \in DOMAIN requests :
        \A i \in DOMAIN requests[r].ids, j \in DOMAIN requests[s].ids :
            (r # s \/ i # j) => requests[r].ids[i] # requests[s].ids[j]

===========================================================================
